---- MODULE Spec2Model ----
(***************************************************************************)
(* Lynkr: provider dispatch (src/clients/databricks.js), the per-provider  *)
(* circuit breaker and retry policy it calls, and the same-role message   *)
(* compaction done for the local targets.                                  *)
(***************************************************************************)
EXTENDS Integers, Sequences, FiniteSets, TLC

VARIABLES config, breakers, now, req, consec, compaction, translation,
          analysis, memory, selection, sse

vars ==
  <<config, breakers, now, req, consec, compaction, translation, analysis,
    memory, selection, sse>>

(***************************************************************************)
(* Bounds                                                                  *)
(***************************************************************************)
NumHandlers == 2
MaxTicks == 2
MaxMsgs == 3

(***************************************************************************)
(* Program constants                                                       *)
(***************************************************************************)
\* variant: the breaker is created with a larger failure threshold
failureThreshold_Six == 3 + 3

failureThreshold == 5

\* variant: the breaker is created with a larger success threshold
successThreshold_Three == 2 + 1

successThreshold == 2
timeout == 60000
DefaultMaxRetries == 3

TickMs == timeout \div 2

Handlers == 1..NumHandlers

Providers ==
  {"azure-openai", "azure-anthropic", "ollama", "openrouter", "openai",
   "llamacpp", "lmstudio", "bedrock", "databricks"}

LocalProviders == {"ollama", "llamacpp", "lmstudio"}

\* configuration validation rejects a local provider as FALLBACK_PROVIDER
FallbackProviders == Providers \ LocalProviders

InvokeFns ==
  {"invokeAzureOpenAI", "invokeAzureAnthropic", "invokeOllama",
   "invokeOpenRouter", "invokeOpenAI", "invokeLlamaCpp", "invokeLMStudio",
   "invokeBedrock", "invokeDatabricks"}

Outcomes == {"ok", "h400", "h429", "h500", "refused", "timeout"}

NoErr == [kind |-> "none", by |-> "none"]

(***************************************************************************)
(* invokeModel: which invoke function each branch of the two if-chains     *)
(* calls.                                                                  *)
(***************************************************************************)
PrimaryInvokeFn(p) ==
  IF p = "azure-openai" THEN "invokeAzureOpenAI"
  ELSE IF p = "azure-anthropic" THEN "invokeAzureAnthropic"
  ELSE IF p = "ollama" THEN "invokeOllama"
  ELSE IF p = "openrouter" THEN "invokeOpenRouter"
  ELSE IF p = "openai" THEN "invokeOpenAI"
  ELSE IF p = "llamacpp" THEN "invokeLlamaCpp"
  ELSE IF p = "lmstudio" THEN "invokeLMStudio"
  ELSE IF p = "bedrock" THEN "invokeBedrock"
  ELSE "invokeDatabricks"

FallbackInvokeFn(p) ==
  IF p = "azure-openai" THEN "invokeAzureOpenAI"
  ELSE IF p = "azure-anthropic" THEN "invokeAzureAnthropic"
  ELSE IF p = "openrouter" THEN "invokeOpenRouter"
  ELSE IF p = "openai" THEN "invokeOpenAI"
  ELSE IF p = "llamacpp" THEN "invokeLlamaCpp"
  ELSE "invokeDatabricks"

\* the provider whose endpoint / key an invoke function requires
ConfigOf(fn) ==
  CASE fn = "invokeAzureOpenAI" -> "azure-openai"
    [] fn = "invokeAzureAnthropic" -> "azure-anthropic"
    [] fn = "invokeOllama" -> "ollama"
    [] fn = "invokeOpenRouter" -> "openrouter"
    [] fn = "invokeOpenAI" -> "openai"
    [] fn = "invokeLlamaCpp" -> "llamacpp"
    [] fn = "invokeLMStudio" -> "lmstudio"
    [] fn = "invokeBedrock" -> "bedrock"
    [] OTHER -> "databricks"

\* the stream flag of the body an invoke function hands to performJsonRequest
UpstreamStream(fn, bodyStream) ==
  IF fn \in {"invokeOllama", "invokeAzureOpenAI", "invokeBedrock"}
  THEN FALSE
  ELSE bodyStream

\* invokeBedrock throws on a response that is not ok; the others return it
ThrowsOnNotOk(fn) == fn = "invokeBedrock"

(***************************************************************************)
(* Retry policy (clients/retry.js)                                         *)
(***************************************************************************)
\* config.apiRetry?.maxRetries || 3
maxRetries == IF config.apiMaxRetries = 0 THEN DefaultMaxRetries
              ELSE config.apiMaxRetries

Retryable(o) == o \in {"h429", "h500", "refused", "timeout"}

ErrorKindOf(o) ==
  CASE o = "h429" -> "rate_limited"
    [] o = "h500" -> "server_error"
    [] o = "refused" -> "refused"
    [] o = "timeout" -> "timeout"
    [] OTHER -> "none"

\* withRetry: another attempt is made for a retryable outcome while attempts
\* remain
RetryAgain(o, posts) == Retryable(o) /\ posts < maxRetries

\* variant: the streaming branch goes through the retry loop too
PerformJsonRequest_RetryStream(ustream, o, posts) ==
  IF RetryAgain(o, posts) THEN "again"
  ELSE IF Retryable(o) THEN "throw" ELSE "return"

\* performJsonRequest after the answer o to its posts-th POST:
\* "again" (POST once more), "return" (result object) or "throw"
PerformJsonRequest(ustream, o, posts) ==
  IF ustream
  THEN IF o \in {"refused", "timeout"} THEN "throw" ELSE "return"
  ELSE IF RetryAgain(o, posts) THEN "again"
       ELSE IF Retryable(o) THEN "throw" ELSE "return"

(***************************************************************************)
(* Circuit breaker (clients/circuit-breaker.js)                            *)
(***************************************************************************)
ClosedBreaker ==
  [state |-> "closed", failureCount |-> 0, successCount |-> 0,
   openUntil |-> 0, probing |-> FALSE]

\* execute(): admission.  Returns the verdict and the breaker afterwards.
Admit(b, t) ==
  IF b.state = "closed"
  THEN [ok |-> TRUE, probe |-> FALSE, b |-> b]
  ELSE IF b.state = "open"
  THEN IF t < b.openUntil
       THEN [ok |-> FALSE, probe |-> FALSE, b |-> b]
       ELSE [ok |-> TRUE, probe |-> TRUE,
             b |-> [b EXCEPT !.state = "half_open", !.successCount = 0,
                             !.probing = TRUE]]
  ELSE IF b.probing
       THEN [ok |-> FALSE, probe |-> FALSE, b |-> b]
       ELSE [ok |-> TRUE, probe |-> TRUE, b |-> [b EXCEPT !.probing = TRUE]]

Reopen(b, t) ==
  [b EXCEPT !.state = "open", !.openUntil = t + timeout,
            !.successCount = 0, !.probing = FALSE]

\* execute(): the guarded function resolved
OnSuccess(b, probe) ==
  IF b.state = "closed" /\ ~probe
  THEN [b EXCEPT !.failureCount = 0]
  ELSE IF b.state = "half_open" /\ probe
  THEN IF b.successCount + 1 >= successThreshold
       THEN ClosedBreaker
       ELSE [b EXCEPT !.successCount = b.successCount + 1, !.probing = FALSE]
  ELSE b

\* execute(): the guarded function rejected
OnFailure(b, probe, t) ==
  IF b.state = "closed" /\ ~probe
  THEN IF b.failureCount + 1 >= failureThreshold
       THEN [Reopen(b, t) EXCEPT !.failureCount = failureThreshold]
       ELSE [b EXCEPT !.failureCount = b.failureCount + 1]
  ELSE IF b.state = "half_open" /\ probe
  THEN Reopen(b, t)
  ELSE b

\* the error classes section 7 lists as counted by the breaker; an error of
\* another class releases the probe slot and changes nothing else
BreakerCounted(kind) == kind # "config"

OnUncounted(b, probe) ==
  IF b.state = "half_open" /\ probe THEN [b EXCEPT !.probing = FALSE] ELSE b

\* execute(): the guarded function rejected with an error of class kind
OnRejection(b, probe, t, kind) ==
  IF BreakerCounted(kind) THEN OnFailure(b, probe, t) ELSE OnUncounted(b, probe)

(***************************************************************************)
(* invokeModel                                                             *)
(***************************************************************************)
\* determineProvider(body) in static mode: the configured provider
determineProvider == config.modelProvider

isFallbackEnabled == config.fallbackEnabled

getFallbackProvider == config.fallbackProvider

ShouldFallback(initialProvider, disableFallback) ==
  /\ config.preferOllama
  /\ initialProvider = "ollama"
  /\ isFallbackEnabled
  /\ ~disableFallback

\* the message of the "not configured" error each invoke function throws
ConfigMessageSaysNotConfigured(fn) ==
  fn \notin {"invokeDatabricks", "invokeBedrock"}

categorizeFailure(err) ==
  IF err.kind = "circuit_breaker_open" THEN "circuit_breaker"
  ELSE IF err.kind = "timeout" THEN "timeout"
  ELSE IF err.kind = "config" /\ ConfigMessageSaysNotConfigured(err.by)
  THEN "service_unavailable"
  ELSE IF err.kind = "refused" THEN "service_unavailable"
  ELSE IF err.kind = "rate_limited" THEN "rate_limited"
  ELSE "error"

IdleReq ==
  [pc |-> "idle", stream |-> FALSE, disableFallback |-> FALSE,
   posts |-> 0, ustream |-> FALSE, probe |-> FALSE,
   execs |-> 0, fbExecs |-> 0, primFn |-> "none", fbFn |-> "none",
   err |-> NoErr, fbErr |-> NoErr, reason |-> "none", status |-> "none",
   recSuccess |-> FALSE, recFailure |-> FALSE, counted |-> "none",
   result |-> [actualProvider |-> "none", provider |-> "none",
               method |-> "none", fallbackReason |-> "none"],
   thrown |-> [from |-> "none", kind |-> "none"]]


Bump(n) == IF n < failureThreshold THEN n + 1 ELSE n

\* the catch block that receives a rejected dispatch: the outer one
\* (lines 1004-1031) for the primary, the inner one (1092-1106) for the
\* fallback, which rethrows the fallback's error
\* variant: the inner catch block tries the fallback again
FallbackCatch_Again(r, err) == [r EXCEPT !.pc = "fallback"]

\* variant: the inner catch block rethrows the primary's error
FallbackCatch_Primary(r, err) ==
  [r EXCEPT !.pc = "failed",
            !.thrown = [from |-> "primary", kind |-> r.err.kind]]

FallbackCatch(r, err) ==
  [r EXCEPT !.pc = "failed",
            !.thrown = [from |-> "fallback", kind |-> err.kind]]

Rejected(r, err, phase) ==
  IF phase = "primary"
  THEN [r EXCEPT !.pc = "catch", !.err = err]
  ELSE FallbackCatch([r EXCEPT !.fbErr = err], err)

\* the statements after a resolved breaker.execute(): metrics and the
\* returned object (lines 979-1002 and 1059-1090)
Resolved(r, p, phase) ==
  IF phase = "primary"
  THEN [r EXCEPT !.pc = "done", !.recSuccess = TRUE,
                 !.result = [actualProvider |-> p, provider |-> p,
                             method |-> "complexity",
                             fallbackReason |-> "none"]]
  ELSE [r EXCEPT !.pc = "done",
                 !.result = [actualProvider |-> p, provider |-> p,
                             method |-> "fallback",
                             fallbackReason |-> r.reason]]

\* breaker.execute(fn) up to the first POST of fn
Dispatch(h, p, fn, phase) ==
  LET adm == Admit(breakers[p], now)
      r0 == [req[h] EXCEPT !.execs = @ + 1,
                           !.fbExecs = IF phase = "fallback" THEN @ + 1 ELSE @,
                           !.posts = 0, !.status = "none",
                           !.counted = "none", !.probe = FALSE]
  IN
  IF ~adm.ok
  THEN /\ req' = [req EXCEPT ![h] =
                    Rejected(r0, [kind |-> "circuit_breaker_open",
                                  by |-> "breaker"], phase)]
       /\ UNCHANGED <<breakers, consec>>
  ELSE LET r1 == IF phase = "primary" THEN [r0 EXCEPT !.primFn = fn]
                 ELSE [r0 EXCEPT !.fbFn = fn]
       IN
       IF ConfigOf(fn) \in config.notConfigured
       THEN /\ breakers' = [breakers EXCEPT ![p] =
                              OnRejection(adm.b, adm.probe, now, "config")]
            /\ consec' = [consec EXCEPT ![p] =
                            IF BreakerCounted("config") THEN Bump(@) ELSE @]
            /\ req' = [req EXCEPT ![h] =
                         Rejected([r1 EXCEPT !.counted =
                                     IF BreakerCounted("config")
                                     THEN "failure" ELSE "none"],
                                  [kind |-> "config", by |-> fn], phase)]
       ELSE /\ breakers' = [breakers EXCEPT ![p] = adm.b]
            /\ req' = [req EXCEPT ![h] =
                         [r1 EXCEPT !.pc = IF phase = "primary"
                                           THEN "awaiting" ELSE "fb_awaiting",
                                    !.posts = 1,
                                    !.ustream = UpstreamStream(fn, r1.stream),
                                    !.probe = adm.probe]]
            /\ UNCHANGED consec

\* the answer o to the POST in flight: performJsonRequest, the rest of the
\* invoke function, breaker accounting and the continuation in invokeModel
Answer(h, p, fn, phase, o) ==
  LET r == req[h]
      step == PerformJsonRequest(r.ustream, o, r.posts)
      failed == step = "throw" \/ (ThrowsOnNotOk(fn) /\ o # "ok")
      err == IF step = "throw" THEN [kind |-> ErrorKindOf(o), by |-> "fetch"]
             ELSE [kind |-> "bedrock_failed", by |-> fn]
  IN
  IF step = "again"
  THEN /\ req' = [req EXCEPT ![h] = [r EXCEPT !.posts = @ + 1]]
       /\ UNCHANGED <<breakers, consec>>
  ELSE IF failed
  THEN /\ breakers' = [breakers EXCEPT ![p] =
                         OnRejection(@, r.probe, now, err.kind)]
       /\ consec' = [consec EXCEPT ![p] = Bump(@)]
       /\ req' = [req EXCEPT ![h] =
                    Rejected([r EXCEPT !.status = o, !.counted = "failure"],
                             err, phase)]
  ELSE /\ breakers' = [breakers EXCEPT ![p] = OnSuccess(@, r.probe)]
       /\ consec' = [consec EXCEPT ![p] = 0]
       /\ req' = [req EXCEPT ![h] =
                    Resolved([r EXCEPT !.status = o, !.counted = "success"],
                             p, phase)]

(***************************************************************************)
(* Actions                                                                 *)
(***************************************************************************)
\* a caller enters invokeModel(body, options)
StartCall(h) ==
  /\ req[h].pc = "idle"
  /\ \E s \in BOOLEAN, df \in BOOLEAN :
       req' = [req EXCEPT ![h] = [IdleReq EXCEPT !.pc = "primary",
                                                 !.stream = s,
                                                 !.disableFallback = df]]
  /\ UNCHANGED <<config, breakers, now, consec, compaction, translation,
               analysis,
                 memory, selection, sse>>

\* breaker.execute for the initial provider (lines 946-977)
Primary(h) ==
  /\ req[h].pc = "primary"
  /\ Dispatch(h, determineProvider, PrimaryInvokeFn(determineProvider),
              "primary")
  /\ UNCHANGED <<config, now, compaction, translation,
               analysis,
                 memory, selection, sse>>

\* the upstream answers the primary's POST
Respond(h) ==
  /\ req[h].pc = "awaiting"
  /\ \E o \in Outcomes :
       Answer(h, determineProvider, req[h].primFn, "primary", o)
  /\ UNCHANGED <<config, now, compaction, translation,
               analysis,
                 memory, selection, sse>>

\* the outer catch block (lines 1004-1031)
Catch(h) ==
  /\ req[h].pc = "catch"
  /\ LET r == [req[h] EXCEPT !.recFailure = TRUE]
     IN IF ~ShouldFallback(determineProvider, r.disableFallback)
        THEN req' = [req EXCEPT ![h] =
                       [r EXCEPT !.pc = "failed",
                                 !.thrown = [from |-> "primary",
                                             kind |-> r.err.kind]]]
        ELSE req' = [req EXCEPT ![h] =
                       [r EXCEPT !.pc = "fallback",
                                 !.reason = categorizeFailure(r.err)]]
  /\ UNCHANGED <<config, breakers, now, consec, compaction, translation,
               analysis,
                 memory, selection, sse>>

\* fallbackBreaker.execute (lines 1033-1057)
Fallback(h) ==
  /\ req[h].pc = "fallback"
  /\ Dispatch(h, getFallbackProvider, FallbackInvokeFn(getFallbackProvider),
              "fallback")
  /\ UNCHANGED <<config, now, compaction, translation,
               analysis,
                 memory, selection, sse>>

\* the upstream answers the fallback's POST
FbRespond(h) ==
  /\ req[h].pc = "fb_awaiting"
  /\ \E o \in Outcomes :
       Answer(h, getFallbackProvider, req[h].fbFn, "fallback", o)
  /\ UNCHANGED <<config, now, compaction, translation,
               analysis,
                 memory, selection, sse>>

\* invokeModel has returned or thrown; the handler takes the next request
Finish(h) ==
  /\ req[h].pc \in {"done", "failed"}
  /\ req' = [req EXCEPT ![h] = IdleReq]
  /\ UNCHANGED <<config, breakers, now, consec, compaction, translation,
               analysis,
                 memory, selection, sse>>

\* Date.now() advances
Tick ==
  /\ now < MaxTicks * TickMs
  /\ now' = now + TickMs
  /\ UNCHANGED <<config, breakers, req, consec, compaction, translation,
               analysis,
                 memory, selection, sse>>

(***************************************************************************)
(* Specifications                                                          *)
(***************************************************************************)
NoCompaction ==
  [target |-> "none", messages |-> <<>>, system |-> <<>>,
   translated |-> <<>>, emitted |-> <<>>]

\* nothing has been translated yet
NoTranslation == [op |-> "none"]

\* no request has been analysed yet
NoAnalysis == [done |-> FALSE]

\* the memory subsystem, the tool selection and the SSE consumer have not
\* been called yet
NoCall == [op |-> "none"]

ApiRetryChoices == {0, 2}

Configs ==
  {c \in [modelProvider : Providers, fallbackProvider : FallbackProviders,
          fallbackEnabled : BOOLEAN, preferOllama : BOOLEAN,
          apiMaxRetries : ApiRetryChoices,
          notConfigured : SUBSET Providers] :
     \/ c.notConfigured = {}
     \/ c.notConfigured = {c.modelProvider}
     \/ c.notConfigured = {c.fallbackProvider}}

OffReq == [IdleReq EXCEPT !.pc = "off"]

\* one request at a time, every configuration
Init ==
  /\ config \in Configs
  /\ breakers = [p \in Providers |-> ClosedBreaker]
  /\ now = 0
  /\ req = [h \in Handlers |-> IF h = 1 THEN IdleReq ELSE OffReq]
  /\ consec = [p \in Providers |-> 0]
  /\ compaction = NoCompaction
  /\ translation = NoTranslation
  /\ analysis = NoAnalysis
  /\ memory = NoCall
  /\ selection = NoCall
  /\ sse = NoCall

Next ==
  \/ \E h \in Handlers : StartCall(h)
  \/ \E h \in Handlers : Primary(h)
  \/ \E h \in Handlers : Respond(h)
  \/ \E h \in Handlers : Catch(h)
  \/ \E h \in Handlers : Fallback(h)
  \/ \E h \in Handlers : FbRespond(h)
  \/ \E h \in Handlers : Finish(h)
  \/ Tick

Spec == Init /\ [][Next]_vars


(***************************************************************************)
(* One provider's breaker under concurrent breaker.execute(fn) calls       *)
(***************************************************************************)
\* a request reaches breaker.execute(fn) and is admitted or rejected
Execute(h) ==
  /\ req[h].pc = "idle"
  /\ LET adm == Admit(breakers[determineProvider], now)
     IN IF adm.ok
        THEN /\ breakers' = [breakers EXCEPT ![determineProvider] = adm.b]
             /\ req' = [req EXCEPT ![h] =
                          [IdleReq EXCEPT !.pc = "executing",
                                          !.probe = adm.probe]]
        ELSE /\ req' = [req EXCEPT ![h] =
                          [IdleReq EXCEPT !.thrown =
                             [from |-> "primary",
                              kind |-> "circuit_breaker_open"]]]
             /\ UNCHANGED breakers
  /\ UNCHANGED <<config, now, consec, compaction, translation,
               analysis,
                 memory, selection, sse>>

\* the guarded function of an admitted call resolves or rejects
Settle(h) ==
  /\ req[h].pc = "executing"
  /\ \E ok \in BOOLEAN :
       /\ breakers' = [breakers EXCEPT ![determineProvider] =
                         IF ok THEN OnSuccess(@, req[h].probe)
                         ELSE OnFailure(@, req[h].probe, now)]
       /\ consec' = [consec EXCEPT ![determineProvider] =
                       IF ok THEN 0 ELSE Bump(@)]
  /\ req' = [req EXCEPT ![h] = IdleReq]
  /\ UNCHANGED <<config, now, compaction, translation,
               analysis,
                 memory, selection, sse>>

BreakerConfigs ==
  {c \in Configs : /\ c.modelProvider \in LocalProviders
                   /\ c.fallbackProvider = "databricks"
                   /\ ~c.fallbackEnabled /\ ~c.preferOllama
                   /\ c.apiMaxRetries = 0
                   /\ c.notConfigured = {}}

InitBreaker ==
  /\ config \in BreakerConfigs
  /\ breakers = [p \in Providers |-> ClosedBreaker]
  /\ now = 0
  /\ req = [h \in Handlers |-> IdleReq]
  /\ consec = [p \in Providers |-> 0]
  /\ compaction = NoCompaction
  /\ translation = NoTranslation
  /\ analysis = NoAnalysis
  /\ memory = NoCall
  /\ selection = NoCall
  /\ sse = NoCall

NextBreaker ==
  \/ \E h \in Handlers : Execute(h)
  \/ \E h \in Handlers : Settle(h)
  \/ Tick

SpecBreaker == InitBreaker /\ [][NextBreaker]_vars


(***************************************************************************)
(* Request messages for the local targets (invokeOllama, invokeLlamaCpp)   *)
(***************************************************************************)
\* strings are sequences of characters; NL is "\n"
NL == "\n"

NullRole == "null"

Str(c) == <<c>>

TextBlock(t) == [type |-> "text", text |-> t, id |-> 0]
ToolUse(i) == [type |-> "tool_use", text |-> <<>>, id |-> i]
ToolResult(i, t) == [type |-> "tool_result", text |-> t, id |-> i]

StringContent(t) == [isArray |-> FALSE, text |-> t, blocks |-> <<>>]
BlockContent(bs) == [isArray |-> TRUE, text |-> <<>>, blocks |-> bs]

\* Array.prototype.join
RECURSIVE Join(_, _)
Join(parts, sep) ==
  IF Len(parts) = 0 THEN <<>>
  ELSE IF Len(parts) = 1 THEN parts[1]
  ELSE parts[1] \o sep \o Join(Tail(parts), sep)

RECURSIVE Filter(_, _)
Filter(bs, type) ==
  IF Len(bs) = 0 THEN <<>>
  ELSE IF Head(bs).type = type THEN <<Head(bs)>> \o Filter(Tail(bs), type)
  ELSE Filter(Tail(bs), type)

TextsOf(bs) == [k \in 1..Len(Filter(bs, "text")) |-> Filter(bs, "text")[k].text]
IdsOf(bs, type) == [k \in 1..Len(Filter(bs, type)) |-> Filter(bs, type)[k].id]

Msg(role, content, calls, callId) ==
  [role |-> role, content |-> content, tool_calls |-> calls,
   tool_call_id |-> callId]

\* invokeOllama: content blocks flattened to one string, role kept
OllamaMessage(msg) ==
  Msg(msg.role,
      IF msg.content.isArray
      THEN Join(TextsOf(msg.content.blocks), Str(NL))
      ELSE msg.content.text,
      <<>>, 0)

OllamaMessages(messages) ==
  [k \in 1..Len(messages) |-> OllamaMessage(messages[k])]

\* convertAnthropicMessagesToOpenRouter: one canonical message
HasCall(out, i) ==
  \E k \in 1..Len(out) :
    /\ out[k].role = "assistant"
    /\ \E c \in 1..Len(out[k].tool_calls) : out[k].tool_calls[c] = i

RECURSIVE ToolMessages(_, _)
ToolMessages(results, out) ==
  IF Len(results) = 0 THEN <<>>
  ELSE (IF HasCall(out, Head(results).id)
        THEN <<Msg("tool", Head(results).text, <<>>, Head(results).id)>>
        ELSE <<>>) \o ToolMessages(Tail(results), out)

OpenRouterMessage(msg, out) ==
  IF ~msg.content.isArray
  THEN <<Msg(msg.role, msg.content.text, <<>>, 0)>>
  ELSE IF msg.role = "assistant"
  THEN <<Msg("assistant", Join(TextsOf(msg.content.blocks), Str(NL)),
             IdsOf(msg.content.blocks, "tool_use"), 0)>>
  ELSE ToolMessages(Filter(msg.content.blocks, "tool_result"), out)
       \o (IF Len(Filter(msg.content.blocks, "text")) > 0
           THEN <<Msg(msg.role, Join(TextsOf(msg.content.blocks), Str(NL)),
                      <<>>, 0)>>
           ELSE <<>>)

RECURSIVE OpenRouterFrom(_, _, _)
OpenRouterFrom(messages, k, out) ==
  IF k > Len(messages) THEN out
  ELSE OpenRouterFrom(messages, k + 1,
                      out \o OpenRouterMessage(messages[k], out))

convertAnthropicMessagesToOpenRouter(messages) ==
  OpenRouterFrom(messages, 1, <<>>)

\* invokeLlamaCpp: translated messages with the system prompt unshifted
LlamaCppMessages(messages, system) ==
  (IF system # <<>> THEN <<Msg("system", system, <<>>, 0)>> ELSE <<>>)
    \o convertAnthropicMessagesToOpenRouter(messages)

\* variant: lastRole is not updated after a message is kept
DedupStep_NoUpdate(st, msg) ==
  IF msg.role = st.lastRole THEN st
  ELSE [out |-> Append(st.out, msg), lastRole |-> st.lastRole]

\* one iteration of the deduplication loop
DedupStep(st, msg) ==
  IF msg.role = st.lastRole THEN st
  ELSE [out |-> Append(st.out, msg), lastRole |-> msg.role]

RECURSIVE DedupFrom(_, _, _)
DedupFrom(msgs, k, st) ==
  IF k > Len(msgs) THEN st.out
  ELSE DedupFrom(msgs, k + 1, DedupStep(st, msgs[k]))

\* the loop "Deduplicate consecutive messages with same role"
Deduplicate(msgs) == DedupFrom(msgs, 1, [out |-> <<>>, lastRole |-> NullRole])

\* the request bodies a caller can send, bounded
AssistantContents ==
  {StringContent(Str("a")), StringContent(<<>>),
   BlockContent(<<TextBlock(Str("a")), TextBlock(Str("b"))>>),
   BlockContent(<<ToolUse(1)>>),
   BlockContent(<<TextBlock(Str("a")), ToolUse(1), ToolUse(2)>>)}

UserContents ==
  {StringContent(Str("a")), StringContent(Str("b")),
   BlockContent(<<TextBlock(Str("a")), TextBlock(Str("b"))>>),
   BlockContent(<<ToolResult(1, Str("r"))>>),
   BlockContent(<<ToolResult(1, Str("r")), ToolResult(2, Str("s"))>>)}

CanonicalMessages ==
  [role : {"assistant"}, content : AssistantContents]
    \cup [role : {"user"}, content : UserContents]
    \cup [role : {"system"}, content : {StringContent(Str("s"))}]

MessageLists ==
  UNION {[1..n -> CanonicalMessages] : n \in 0..MaxMsgs}

SystemPrompts == {<<>>, Str("s")}

\* invokeOllama builds the messages of ollamaBody
BuildOllamaBody ==
  /\ compaction.target = "none"
  /\ compaction' =
       [compaction EXCEPT
          !.target = "ollama",
          !.translated = OllamaMessages(compaction.messages),
          !.emitted = Deduplicate(OllamaMessages(compaction.messages))]
  /\ UNCHANGED <<config, breakers, now, req, consec, translation, analysis,
                 memory, selection, sse>>

\* invokeLlamaCpp builds the messages of llamacppBody
BuildLlamaCppBody ==
  /\ compaction.target = "none"
  /\ compaction' =
       [compaction EXCEPT
          !.target = "llamacpp",
          !.translated = LlamaCppMessages(compaction.messages,
                                          compaction.system),
          !.emitted = Deduplicate(LlamaCppMessages(compaction.messages,
                                                   compaction.system))]
  /\ UNCHANGED <<config, breakers, now, req, consec, translation, analysis,
                 memory, selection, sse>>

InitCompact ==
  /\ config \in BreakerConfigs
  /\ breakers = [p \in Providers |-> ClosedBreaker]
  /\ now = 0
  /\ req = [h \in Handlers |-> OffReq]
  /\ consec = [p \in Providers |-> 0]
  /\ \E ms \in MessageLists, sys \in SystemPrompts :
       compaction = [NoCompaction EXCEPT !.messages = ms, !.system = sys]
  /\ translation = NoTranslation
  /\ analysis = NoAnalysis
  /\ memory = NoCall
  /\ selection = NoCall
  /\ sse = NoCall

NextCompact == BuildOllamaBody \/ BuildLlamaCppBody

SpecCompact == InitCompact /\ [][NextCompact]_vars

(***************************************************************************)
(* Properties of invokeModel                                               *)
(***************************************************************************)
Finished(h) == req[h].pc \in {"done", "failed"}

\* C1: one invokeModel call performs at most two breaker-guarded
\* dispatches, at most one of them to the fallback provider, and a call
\* whose fallback failed has made exactly one fallback dispatch.
C1_FallbackAtMostOnce ==
  \A h \in Handlers :
    /\ req[h].execs <= 2
    /\ req[h].fbExecs <= 1
    /\ req[h].execs - req[h].fbExecs <= 1
    /\ (req[h].pc = "failed" /\ req[h].thrown.from = "fallback")
         => req[h].fbExecs = 1

C1_Witness ==
  \E h \in Handlers :
    /\ req[h].pc = "failed"
    /\ req[h].thrown.from = "fallback"
    /\ req[h].execs = 2 /\ req[h].fbExecs = 1
    /\ req[h].fbErr.kind = "server_error"

\* C7: when the primary failed and the fallback dispatch failed as well,
\* the error invokeModel throws is the fallback's error.
C7_FallbackErrorSurfaces ==
  \A h \in Handlers :
    (req[h].pc = "failed" /\ req[h].fbExecs = 1)
      => /\ req[h].thrown.from = "fallback"
         /\ req[h].thrown.kind = req[h].fbErr.kind
         /\ req[h].fbErr # NoErr

C7_Witness ==
  \E h \in Handlers :
    /\ req[h].pc = "failed" /\ req[h].fbExecs = 1
    /\ req[h].err.kind = "refused"
    /\ req[h].fbErr.kind = "rate_limited"
    /\ req[h].thrown.kind = "rate_limited"

\* C5: a request whose upstream body has stream = true is POSTed exactly
\* once whatever the answer; a non-streaming request is POSTed at most
\* maxRetries times.
C5_StreamingNeverRetried ==
  \A h \in Handlers :
    /\ req[h].pc \in {"awaiting", "fb_awaiting"} => req[h].posts >= 1
    /\ IF req[h].ustream THEN req[h].posts <= 1
       ELSE req[h].posts <= maxRetries

C5_Witness ==
  \E h \in Handlers :
    /\ req[h].pc = "done"
    /\ req[h].ustream /\ req[h].posts = 1
    /\ req[h].status = "h500"


\* the classes of primary failure that section 7 lists as fallback-eligible
FallbackEligible(kind) ==
  kind \in {"circuit_breaker_open", "refused", "timeout", "rate_limited",
            "server_error", "tool_incompatible"}

PrimaryFailed(h) ==
  /\ req[h].err # NoErr
  /\ req[h].pc \in {"fallback", "fb_awaiting", "done", "failed"}

FallbackChosen(h) == req[h].pc \in {"fallback", "fb_awaiting"} \/ req[h].fbExecs = 1

\* C2: after a failed primary dispatch the fallback provider is dispatched
\* only if the primary is a local provider, fallback is enabled and the
\* failure class is fallback-eligible, and it is dispatched for every such
\* failure (of a call that did not pass disableFallback).
C2_FallbackIffEligible ==
  \A h \in Handlers :
    PrimaryFailed(h) =>
      /\ FallbackChosen(h) =>
           /\ determineProvider \in LocalProviders
           /\ isFallbackEnabled
           /\ FallbackEligible(req[h].err.kind)
      /\ ( /\ determineProvider \in LocalProviders
           /\ isFallbackEnabled
           /\ FallbackEligible(req[h].err.kind)
           /\ ~req[h].disableFallback ) => FallbackChosen(h)

\* C6: primary ollama, fallback enabled, fallback provider openai: a
\* request that finds ollama's breaker open does not invoke ollama, is
\* dispatched to openai, and a served result carries provider openai,
\* method fallback and fallback reason circuit_breaker.
C6_OpenBreakerServedByFallback ==
  \A h \in Handlers :
    ( /\ determineProvider = "ollama"
      /\ isFallbackEnabled
      /\ getFallbackProvider = "openai"
      /\ config.notConfigured = {}
      /\ ~req[h].disableFallback
      /\ Finished(h)
      /\ req[h].err.kind = "circuit_breaker_open" )
    => /\ req[h].primFn = "none"
       /\ req[h].fbExecs = 1
       /\ req[h].pc = "done" =>
            /\ req[h].fbFn = "invokeOpenAI"
            /\ req[h].result.actualProvider = "openai"
            /\ req[h].result.provider = "openai"
            /\ req[h].result.method = "fallback"
            /\ req[h].result.fallbackReason = "circuit_breaker"

\* C8: a dispatch whose (last) upstream answer is HTTP 5xx or 429 is a
\* failed dispatch: the provider's breaker counts a failure and the
\* dispatch is not recorded or returned as a success.
C8_ServerErrorIsFailure ==
  \A h \in Handlers :
    req[h].status \in {"h500", "h429"}
      => /\ req[h].counted = "failure"
         /\ ~req[h].recSuccess
         /\ req[h].pc # "done"

\* C9: a primary dispatch that fails because the provider is not
\* configured is not retried (no POST is made), is not counted as a failure
\* by the provider's breaker, and is not followed by a fallback dispatch.
C9_ConfigErrorIsTerminal ==
  \A h \in Handlers :
    (req[h].err.kind = "config" /\ req[h].pc \in {"fallback", "failed"}
       /\ req[h].fbExecs = 0)
      => /\ req[h].posts = 0
         /\ req[h].counted # "failure"
         /\ req[h].pc = "failed"

(***************************************************************************)
(* Properties of the circuit breaker                                       *)
(***************************************************************************)
OpenFor(p) == breakers[p].state = "open" /\ now < breakers[p].openUntil

\* C3: after 5 consecutive failed dispatches a provider's breaker is open
\* (and stays so until the window has elapsed), and a dispatch made while
\* it is open fails at once with circuit_breaker_open, without the invoke
\* function being called and without a POST.
C3_OpenBreakerFailsFast ==
  /\ [](\A p \in Providers :
          consec[p] >= 5 =>
            \/ breakers[p].state = "open"
            \/ breakers[p].state = "half_open" /\ now >= breakers[p].openUntil)
  /\ [][\A h \in Handlers :
          ( /\ req[h].pc = "primary" /\ req'[h].pc # "primary"
            /\ OpenFor(determineProvider) )
          => /\ req'[h].pc = "catch"
             /\ req'[h].err.kind = "circuit_breaker_open"
             /\ req'[h].primFn = "none"
             /\ req'[h].posts = 0
             /\ breakers' = breakers]_vars
  /\ [][\A h \in Handlers :
          ( /\ req[h].pc = "fallback" /\ req'[h].pc # "fallback"
            /\ OpenFor(getFallbackProvider) )
          => /\ req'[h].pc = "failed"
             /\ req'[h].thrown.kind = "circuit_breaker_open"
             /\ req'[h].fbFn = "none"
             /\ req'[h].posts = 0
             /\ breakers' = breakers]_vars

C3_Witness ==
  \E h \in Handlers :
    /\ req[h].pc = "catch"
    /\ req[h].err.kind = "circuit_breaker_open"
    /\ req[h].primFn = "none"
    /\ consec[determineProvider] >= 5
    /\ OpenFor(determineProvider)
    /\ now > 0

Probes == {h \in Handlers : req[h].pc = "executing" /\ req[h].probe}

TheBreaker == breakers[determineProvider]

\* C4: the first call after the open window moves the breaker to half-open
\* and is admitted as the probe; at most one probe is in flight however many
\* requests arrive; 2 consecutive probe successes close the breaker and a
\* probe failure reopens it for a full window.
C4_HalfOpenProbe ==
  /\ [](/\ Cardinality(Probes) <= 1
        /\ TheBreaker.state = "half_open" => (TheBreaker.probing <=> Probes # {})
        /\ TheBreaker.state # "half_open" => Probes = {})
  /\ [][\A h \in Handlers :
          ( /\ req[h].pc = "idle" /\ req'[h] # req[h]
            /\ TheBreaker.state = "open" /\ now >= TheBreaker.openUntil )
          => /\ TheBreaker'.state = "half_open"
             /\ req'[h].pc = "executing" /\ req'[h].probe]_vars
  /\ [][\A h \in Handlers :
          ( /\ req[h].pc = "idle" /\ req'[h].pc = "executing"
            /\ TheBreaker.state # "closed" )
          => /\ TheBreaker.state = "open" => now >= TheBreaker.openUntil
             /\ Probes = {}
             /\ req'[h].probe]_vars
  /\ [][\A h \in Handlers :
          (h \in Probes /\ req'[h].pc = "idle")
          => IF consec'[determineProvider] = 0
             THEN IF TheBreaker.successCount + 1 >= 2
                  THEN TheBreaker'.state = "closed"
                  ELSE /\ TheBreaker'.state = "half_open"
                       /\ TheBreaker'.successCount = TheBreaker.successCount + 1
             ELSE /\ TheBreaker'.state = "open"
                  /\ TheBreaker'.openUntil = now + 60000]_vars

C4_Witness ==
  /\ TheBreaker.state = "half_open"
  /\ TheBreaker.successCount = 1
  /\ \E h1, h2 \in Handlers :
       /\ h1 \in Probes
       /\ req[h2].pc = "idle"
       /\ req[h2].thrown.kind = "circuit_breaker_open"


(***************************************************************************)
(* Properties of the message compaction                                    *)
(***************************************************************************)
NoAdjacentSameRole(msgs) ==
  \A k \in 1..(Len(msgs) - 1) : msgs[k].role # msgs[k + 1].role

\* s is t with some elements removed, order kept
RECURSIVE IsSubseq(_, _)
IsSubseq(s, t) ==
  IF Len(s) = 0 THEN TRUE
  ELSE IF Len(t) = 0 THEN FALSE
  ELSE IF Head(s) = Head(t) THEN IsSubseq(Tail(s), Tail(t))
  ELSE IsSubseq(s, Tail(t))

\* C10: for ollama and llama.cpp the messages of the upstream body never
\* hold two adjacent messages of the same role, and they are an
\* order-preserving subsequence of the translated messages.
C10_NoAdjacentSameRole ==
  compaction.target \in {"ollama", "llamacpp"}
    => /\ NoAdjacentSameRole(compaction.emitted)
       /\ IsSubseq(compaction.emitted, compaction.translated)

C10_Witness ==
  /\ compaction.target = "llamacpp"
  /\ compaction.system # <<>>
  /\ Len(compaction.emitted) >= 2
  /\ Len(compaction.emitted) < Len(compaction.translated)
  /\ \E k \in 1..Len(compaction.translated) :
       compaction.translated[k].role = "tool"

(***************************************************************************)
(* Response translations                                                   *)
(***************************************************************************)
\* the model the caller asked for
RequestedModels == {"claude-sonnet-4-5", "gpt-4o"}

\* the model field of the upstream's answer (it may be missing)
UpstreamModels == {"openai/gpt-4o-mini", "gpt-4o", "undefined"}

\* config.bedrock.modelId
BedrockModelIds == {"anthropic.claude-3-5-sonnet", "claude-sonnet-4-5"}

\* message.content of a chat completion: null, or a string; `parse` is what
\* JSON.parse makes of the whole string
Contents ==
  { [isNull |-> TRUE, text |-> "", parse |-> "fails"],
    [isNull |-> FALSE, text |-> "Hi", parse |-> "fails"],
    [isNull |-> FALSE, text |-> "", parse |-> "fails"],
    [isNull |-> FALSE, text |-> "see {\"function\": \"Write\"}",
     parse |-> "fails"],
    [isNull |-> FALSE, text |-> "{\"function\": \"Write\"}",
     parse |-> "function"],
    [isNull |-> FALSE, text |-> "{\"type\": \"function\"}",
     parse |-> "type_function"],
    [isNull |-> FALSE, text |-> "{\"a\": 1}", parse |-> "object"] }

\* message.tool_calls: each call has an id ("" when omitted) and a name
ToolCallLists ==
  { <<>>, <<[id |-> "c1", name |-> "Write"]>>,
    <<[id |-> "", name |-> "Read"]>>,
    <<[id |-> "c1", name |-> "Write"], [id |-> "c2", name |-> "Read"]>> }

\* finish_reason as a property key (null and undefined are stringified)
FinishReasons ==
  { "stop", "length", "tool_calls", "content_filter", "function_call", "",
    "null", "undefined", "constructor", "toString", "__proto__" }

ChatResponses ==
  [model : UpstreamModels, content : Contents, tool_calls : ToolCallLists,
   finish_reason : {"stop", "tool_calls", "function_call"}]

\* the object literal `mapping` of mapFinishReason
mapping ==
  [k \in {"stop", "length", "tool_calls", "content_filter"} |->
     CASE k = "stop" -> "end_turn"
       [] k = "length" -> "max_tokens"
       [] k = "tool_calls" -> "tool_use"
       [] k = "content_filter" -> "content_filter"]

\* what an object literal inherits from Object.prototype
ObjectPrototypeKeys ==
  { "constructor", "toString", "toLocaleString", "valueOf", "hasOwnProperty",
    "isPrototypeOf", "propertyIsEnumerable", "__proto__",
    "__defineGetter__", "__defineSetter__", "__lookupGetter__",
    "__lookupSetter__" }

\* mapping[finishReason] || "end_turn": the lookup finds own properties
\* first, then what the prototype chain holds; the result is a JavaScript
\* value with its typeof
mapFinishReason(finishReason) ==
  LET looked ==
        IF finishReason \in DOMAIN mapping
        THEN [typeof |-> "string", value |-> mapping[finishReason]]
        ELSE IF finishReason \in ObjectPrototypeKeys
             THEN [typeof |-> IF finishReason = "__proto__" THEN "object"
                              ELSE "function",
                   value |-> finishReason]
             ELSE [typeof |-> "undefined", value |-> ""]
  IN IF looked.typeof # "undefined" THEN looked
     ELSE [typeof |-> "string", value |-> "end_turn"]

\* the fields of convertChatToResponses's result that depend on the answer
convertChatToResponses(chatResponse) ==
  [model |-> chatResponse.model,
   content |-> IF chatResponse.content.isNull THEN ""
               ELSE chatResponse.content.text,
   tool_calls |-> chatResponse.tool_calls,
   stop_reason |-> mapFinishReason(chatResponse.finish_reason)]

\* anthropicResponse of invokeBedrock: its model and stop_reason
BedrockResponse(modelId, stopReason) ==
  [model |-> modelId,
   stop_reason |-> IF stopReason \in {"end_turn", "tool_use", "max_tokens"}
                   THEN stopReason ELSE "end_turn"]

\* variant: only the {"type": "function"} shape is recognised
IsToolCallJson_TypedOnly(content) ==
  ~content.isNull /\ content.parse = "type_function"

\* content parses, as a whole, to an object shaped like a tool call
IsToolCallJson(content) ==
  ~content.isNull /\ content.parse \in {"function", "type_function"}

\* the OpenAI-chat response translation: a text block unless the content is
\* leaked tool-call JSON, then one tool_use block per call
convertOpenRouterResponseToAnthropic(response, requestedModel) ==
  LET text(t) == [type |-> "text", text |-> t, id |-> "", name |-> ""]
      emptied == IF response.tool_calls # <<>> THEN <<>> ELSE <<text("")>>
      textPart == IF IsToolCallJson(response.content) THEN emptied
                  ELSE IF response.content.isNull THEN emptied
                  ELSE <<text(response.content.text)>>
      toolUse(call) ==
        [type |-> "tool_use", text |-> "",
         id |-> IF call.id = "" THEN "toolu_generated" ELSE call.id,
         name |-> call.name]
  IN [model |-> requestedModel,
      content |-> textPart \o [k \in 1..Len(response.tool_calls) |->
                                 toolUse(response.tool_calls[k])],
      stop_reason |-> IF response.finish_reason \in DOMAIN mapping
                      THEN mapping[response.finish_reason] ELSE "end_turn"]

(***************************************************************************)
(* Request translations                                                    *)
(***************************************************************************)
\* a content block of an incoming message; "" stands for an absent field
Block(type, text, id, name, input, tool_use_id, content) ==
  [type |-> type, text |-> text, id |-> id, name |-> name, input |-> input,
   tool_use_id |-> tool_use_id, content |-> content]

BedrockMessages ==
  { [role |-> "user", isArray |-> FALSE, text |-> "Hello", blocks |-> <<>>],
    [role |-> "system", isArray |-> FALSE, text |-> "Be brief",
     blocks |-> <<>>],
    [role |-> "assistant", isArray |-> TRUE, text |-> "",
     blocks |-> <<Block("text", "Reading", "", "", "", "", ""),
                  Block("tool_use", "", "toolu_1", "Read", "{file_path: /a}",
                        "", "")>>],
    [role |-> "user", isArray |-> TRUE, text |-> "",
     blocks |-> <<Block("tool_result", "", "", "", "", "toolu_1",
                        "contents")>>],
    [role |-> "user", isArray |-> TRUE, text |-> "",
     blocks |-> <<Block("tool_result", "", "", "", "", "toolu_1", ""),
                  Block("text", "next", "", "", "", "", "")>>] }

\* c => ({ text: c.text || c.content || "" })
ConversePart(c) ==
  [text |-> IF c.text # "" THEN c.text
            ELSE IF c.content # "" THEN c.content ELSE ""]

\* converseBody.messages of invokeBedrock, with the messages it came from
ConverseBody(messages) ==
  LET source == SelectSeq(messages, LAMBDA msg : msg.role # "system")
      converse(msg) ==
        [role |-> msg.role,
         content |-> IF msg.isArray
                     THEN [k \in 1..Len(msg.blocks) |->
                             ConversePart(msg.blocks[k])]
                     ELSE <<[text |-> msg.text]>>]
  IN [source |-> source,
      messages |-> [k \in 1..Len(source) |-> converse(source[k])]]

\* content of a message of the Responses shape or of the chat shape:
\* undefined, null, a string, or an array of content parts
ChatContent(kind, text, parts) ==
  [kind |-> kind, text |-> text, parts |-> parts]

\* an entry of the input array (null, or an object)
Entry(isNull, role, content, tool_calls, tool_call_id) ==
  [isNull |-> isNull, role |-> role, content |-> content,
   tool_calls |-> tool_calls, tool_call_id |-> tool_call_id]

InputEntries ==
  { Entry(TRUE, "", ChatContent("undefined", <<>>, <<>>), FALSE, ""),
    Entry(FALSE, "", ChatContent("string", Str("a"), <<>>), FALSE, ""),
    Entry(FALSE, "user", ChatContent("undefined", <<>>, <<>>), FALSE, ""),
    Entry(FALSE, "user", ChatContent("string", <<>>, <<>>), FALSE, ""),
    Entry(FALSE, "user", ChatContent("string", Str("a"), <<>>), FALSE, ""),
    Entry(FALSE, "assistant", ChatContent("undefined", <<>>, <<>>), TRUE, ""),
    Entry(FALSE, "tool", ChatContent("undefined", <<>>, <<>>), FALSE, "c1"),
    Entry(FALSE, "user",
          ChatContent("parts", <<>>,
                      <<[type |-> "input_text", text |-> <<>>,
                         input_text |-> Str("b")],
                        [type |-> "image_url", text |-> <<>>,
                         input_text |-> <<>>],
                        [type |-> "text", text |-> Str("c"),
                         input_text |-> <<>>]>>),
          FALSE, "") }

\* responsesRequest.input: a string, an array of entries, or anything else
ResponsesInputs ==
  {[kind |-> k, text |-> t, entries |-> <<>>] :
     k \in {"string", "other"}, t \in {<<>>, Str("a")}}
    \cup {[kind |-> "array", text |-> <<>>, entries |-> es] :
            es \in UNION {[1..n -> InputEntries] : n \in 0..MaxMsgs}}

\* variant: the filter overlooks tool_call_id
IsValid_NoToolCallId(msg) ==
  /\ ~msg.isNull
  /\ msg.role # ""
  /\ \/ msg.content.kind = "parts"
     \/ msg.content.kind = "string" /\ msg.content.text # <<>>
     \/ msg.tool_calls

\* msg && msg.role && (msg.content || msg.tool_calls || msg.tool_call_id)
IsValid(msg) ==
  /\ ~msg.isNull
  /\ msg.role # ""
  /\ \/ msg.content.kind = "parts"
     \/ msg.content.kind = "string" /\ msg.content.text # <<>>
     \/ msg.tool_calls
     \/ msg.tool_call_id # ""

\* content of a cleaned message: msg.content || null, an array of parts
\* flattened to its texts joined by blank lines when it has any
CleanContent(content) ==
  LET partText(p) == IF p.text # <<>> THEN p.text ELSE p.input_text
      texts == SelectSeq(content.parts,
                         LAMBDA p : /\ p.type \in {"text", "input_text"}
                                    /\ partText(p) # <<>>)
      textParts == [k \in 1..Len(texts) |-> partText(texts[k])]
  IN IF content.kind = "undefined"
        \/ (content.kind = "string" /\ content.text = <<>>)
     THEN ChatContent("null", <<>>, <<>>)
     ELSE IF content.kind = "parts" /\ textParts # <<>>
          THEN ChatContent("string", Join(textParts, <<"\n\n">>), <<>>)
          ELSE content

convertResponsesToChat(input) ==
  LET valid == SelectSeq(input.entries, IsValid)
      single == <<[role |-> "user",
                   content |-> ChatContent("string", input.text, <<>>),
                   tool_calls |-> FALSE, tool_call_id |-> ""]>>
  IN IF input.kind = "array"
     THEN IF valid = <<>>
          THEN [threw |-> "No valid messages after filtering",
                messages |-> <<>>]
          ELSE [threw |-> "",
                messages |-> [k \in 1..Len(valid) |->
                                [role |-> valid[k].role,
                                 content |-> CleanContent(valid[k].content),
                                 tool_calls |-> valid[k].tool_calls,
                                 tool_call_id |-> valid[k].tool_call_id]]]
     ELSE [threw |-> "", messages |-> single]

(***************************************************************************)
(* Tool injection                                                          *)
(***************************************************************************)
\* the built-in catalog (names only)
STANDARD_TOOLS == <<"Read", "Write", "Bash">>

\* body.tools: absent, or an array of tool names
BodyTools ==
  { [isArray |-> FALSE, names |-> <<>>], [isArray |-> TRUE, names |-> <<>>],
    [isArray |-> TRUE, names |-> <<"Grep">>],
    [isArray |-> TRUE, names |-> <<"Grep", "Read">>] }

\* process.env: each variable unset, "true" or "false"
Environments ==
  [INJECT_TOOLS_OLLAMA : {"unset", "true", "false"},
   INJECT_TOOLS_LLAMACPP : {"unset", "true", "false"},
   INJECT_TOOLS_LMSTUDIO : {"unset", "true", "false"}]

\* whether an invoke function may inject: process.env.INJECT_TOOLS_* is read
\* by invokeOllama and invokeLlamaCpp only
InjectionEnabled(fn, env) ==
  CASE fn = "invokeOllama" -> env.INJECT_TOOLS_OLLAMA # "false"
    [] fn = "invokeLlamaCpp" -> env.INJECT_TOOLS_LLAMACPP # "false"
    [] OTHER -> TRUE

\* the tools an invoke function sends upstream (none: no tools field)
toolsToSend(fn, tools, env) ==
  IF InjectionEnabled(fn, env) /\ (~tools.isArray \/ tools.names = <<>>)
  THEN STANDARD_TOOLS
  ELSE IF tools.isArray THEN tools.names ELSE <<>>

\* body.tools of the caller's object once the invoke function has run:
\* invokeAzureAnthropic assigns the catalog to it, the others work on a copy
\* or on a local variable
BodyToolsAfter(fn, tools) ==
  IF fn = "invokeAzureAnthropic" /\ (~tools.isArray \/ tools.names = <<>>)
  THEN [isArray |-> TRUE, names |-> STANDARD_TOOLS]
  ELSE tools

(***************************************************************************)
(* Specification of the translations: each step applies one of them to an  *)
(* input                                                                   *)
(***************************************************************************)
ConvertOpenRouterResponse ==
  /\ translation.op = "none"
  /\ \E response \in ChatResponses, requestedModel \in RequestedModels :
       translation' =
         [op |-> "convertOpenRouterResponseToAnthropic",
          requested |-> requestedModel,
          input |-> response,
          output |-> convertOpenRouterResponseToAnthropic(response,
                                                          requestedModel)]
  /\ UNCHANGED <<config, breakers, now, req, consec, compaction, analysis,
                 memory, selection, sse>>

ConvertChatToResponses ==
  /\ translation.op = "none"
  /\ \E chatResponse \in ChatResponses, requestedModel \in RequestedModels :
       translation' =
         [op |-> "convertChatToResponses",
          requested |-> requestedModel,
          input |-> chatResponse,
          output |-> convertChatToResponses(chatResponse)]
  /\ UNCHANGED <<config, breakers, now, req, consec, compaction, analysis,
                 memory, selection, sse>>

BedrockTranslateBack ==
  /\ translation.op = "none"
  /\ \E modelId \in BedrockModelIds, requestedModel \in RequestedModels,
     stopReason \in {"end_turn", "tool_use", "max_tokens", "stop_sequence"} :
       translation' =
         [op |-> "invokeBedrock",
          requested |-> requestedModel,
          input |-> [modelId |-> modelId, stopReason |-> stopReason],
          output |-> BedrockResponse(modelId, stopReason)]
  /\ UNCHANGED <<config, breakers, now, req, consec, compaction, analysis,
                 memory, selection, sse>>

MapFinishReason ==
  /\ translation.op = "none"
  /\ \E finishReason \in FinishReasons :
       translation' =
         [op |-> "mapFinishReason",
          input |-> finishReason,
          output |-> mapFinishReason(finishReason)]
  /\ UNCHANGED <<config, breakers, now, req, consec, compaction, analysis,
                 memory, selection, sse>>

BedrockBuildBody ==
  /\ translation.op = "none"
  /\ \E messages \in UNION {[1..n -> BedrockMessages] : n \in 1..MaxMsgs} :
       translation' =
         [op |-> "converseBody",
          input |-> messages,
          output |-> ConverseBody(messages)]
  /\ UNCHANGED <<config, breakers, now, req, consec, compaction, analysis,
                 memory, selection, sse>>

ConvertResponsesToChat ==
  /\ translation.op = "none"
  /\ \E input \in ResponsesInputs :
       translation' =
         [op |-> "convertResponsesToChat",
          input |-> input,
          output |-> convertResponsesToChat(input)]
  /\ UNCHANGED <<config, breakers, now, req, consec, compaction, analysis,
                 memory, selection, sse>>

BuildTools ==
  /\ translation.op = "none"
  /\ \E fn \in InvokeFns, tools \in BodyTools, env \in Environments :
       translation' =
         [op |-> "tools",
          fn |-> fn,
          input |-> tools,
          env |-> env,
          output |-> toolsToSend(fn, tools, env),
          body |-> BodyToolsAfter(fn, tools)]
  /\ UNCHANGED <<config, breakers, now, req, consec, compaction, analysis,
                 memory, selection, sse>>

InitTranslate ==
  /\ config = CHOOSE c \in BreakerConfigs : c.modelProvider = "ollama"
  /\ breakers = [p \in Providers |-> ClosedBreaker]
  /\ now = 0
  /\ req = [h \in Handlers |-> OffReq]
  /\ consec = [p \in Providers |-> 0]
  /\ compaction = NoCompaction
  /\ translation = NoTranslation
  /\ analysis = NoAnalysis
  /\ memory = NoCall
  /\ selection = NoCall
  /\ sse = NoCall

NextTranslate ==
  \/ ConvertOpenRouterResponse
  \/ ConvertChatToResponses
  \/ BedrockTranslateBack
  \/ MapFinishReason
  \/ BedrockBuildBody
  \/ ConvertResponsesToChat
  \/ BuildTools

SpecTranslate == InitTranslate /\ [][NextTranslate]_vars

(***************************************************************************)
(* Properties of the translations                                          *)
(***************************************************************************)
ResponseTranslations ==
  {"convertOpenRouterResponseToAnthropic", "invokeBedrock",
   "convertChatToResponses"}

\* C11: the model field of every translated response is the model the
\* caller requested, whatever the upstream reported and whatever model the
\* provider is configured with.
C11_ModelEchoesRequest ==
  translation.op \in ResponseTranslations
    => translation.output.model = translation.requested

\* what the finish_reason table of the specification gives
ExpectedStopReason(finishReason) ==
  CASE finishReason = "stop" -> "end_turn"
    [] finishReason = "tool_calls" -> "tool_use"
    [] finishReason = "length" -> "max_tokens"
    [] finishReason = "content_filter" -> "content_filter"
    [] OTHER -> "end_turn"

\* C12: mapFinishReason is total: the four listed reasons map as listed,
\* every other input maps to end_turn, and the result is always one of the
\* four strings.
C12_FinishReasonTotal ==
  translation.op = "mapFinishReason"
    => /\ translation.output.typeof = "string"
       /\ translation.output.value = ExpectedStopReason(translation.input)

TextBlocksOf(content) ==
  {k \in 1..Len(content) : content[k].type = "text"}

JsonToolCallShapes == {"function", "type_function"}

\* C13: an OpenAI-chat response whose whole content is JSON of tool-call
\* shape never surfaces it as text: with tool_calls there is no text block,
\* only one tool_use block per call in order; without tool_calls there is
\* exactly one text block and it is empty.
C13_JsonContentNeverSurfaces ==
  (/\ translation.op = "convertOpenRouterResponseToAnthropic"
   /\ ~translation.input.content.isNull
   /\ translation.input.content.parse \in JsonToolCallShapes)
    => LET calls == translation.input.tool_calls
           content == translation.output.content
       IN IF calls # <<>>
          THEN /\ TextBlocksOf(content) = {}
               /\ Len(content) = Len(calls)
               /\ \A k \in 1..Len(calls) :
                    /\ content[k].type = "tool_use"
                    /\ content[k].name = calls[k].name
                    /\ calls[k].id # "" => content[k].id = calls[k].id
          ELSE /\ Len(content) = 1
               /\ content[1].type = "text"
               /\ content[1].text = ""

C13_Witness ==
  /\ translation.op = "convertOpenRouterResponseToAnthropic"
  /\ translation.input.content.parse = "function"
  /\ Len(translation.input.tool_calls) = 2
  /\ Len(translation.output.content) = 2
  /\ translation.output.content[2].type = "tool_use"

CloudInvokeFns ==
  InvokeFns \ {"invokeOllama", "invokeLlamaCpp", "invokeLMStudio"}

\* the toggle of a local family is on unless it is set to "false"
ToggleOn(fn, env) ==
  CASE fn = "invokeOllama" -> env.INJECT_TOOLS_OLLAMA # "false"
    [] fn = "invokeLlamaCpp" -> env.INJECT_TOOLS_LLAMACPP # "false"
    [] fn = "invokeLMStudio" -> env.INJECT_TOOLS_LMSTUDIO # "false"

\* C14: the catalog is injected exactly when the request carries no tools
\* and the provider permits it (cloud families always, a local family when
\* its toggle is on); with the toggle off a tool-less request goes upstream
\* without tools, and a request with tools is sent with its own tools.
C14_InjectionIffPermitted ==
  translation.op = "tools"
    => LET toolless == ~translation.input.isArray
                         \/ Len(translation.input.names) = 0
           permits == translation.fn \in CloudInvokeFns
                        \/ ToggleOn(translation.fn, translation.env)
           sent == translation.output
       IN /\ (toolless /\ permits) => sent = STANDARD_TOOLS
          /\ (toolless /\ ~permits) => sent = <<>>
          /\ ~toolless => sent = translation.input.names

\* C15: in the Converse request every tool_use block becomes a toolUse part
\* with the same id, name and input, and every tool_result block a
\* toolResult part with the same tool-use id and its content as text.
C15_ToolBlocksBecomeToolParts ==
  translation.op = "converseBody"
    => \A m \in 1..Len(translation.output.source) :
         LET msg == translation.output.source[m]
             out == translation.output.messages[m]
         IN msg.isArray
              => /\ Len(out.content) = Len(msg.blocks)
                 /\ \A k \in 1..Len(msg.blocks) :
                      /\ msg.blocks[k].type = "tool_use"
                           => /\ "toolUse" \in DOMAIN out.content[k]
                              /\ out.content[k].toolUse =
                                   [toolUseId |-> msg.blocks[k].id,
                                    name |-> msg.blocks[k].name,
                                    input |-> msg.blocks[k].input]
                      /\ msg.blocks[k].type = "tool_result"
                           => /\ "toolResult" \in DOMAIN out.content[k]
                              /\ out.content[k].toolResult =
                                   [toolUseId |-> msg.blocks[k].tool_use_id,
                                    content |->
                                      <<[text |-> msg.blocks[k].content]>>]

\* an entry with a role and at least one of content, tool_calls, tool_call_id
Salvageable(entry) ==
  /\ ~entry.isNull
  /\ entry.role # ""
  /\ \/ entry.content.kind = "parts"
     \/ entry.content.kind = "string" /\ entry.content.text # <<>>
     \/ entry.tool_calls
     \/ entry.tool_call_id # ""

\* C16: convertResponsesToChat turns a string input into one user message
\* holding it; an array input into exactly its entries that have a role and
\* a payload, in order; raises the distinguished error when none survives;
\* and so never returns a chat request without messages.
C16_ResponsesInputFiltered ==
  translation.op = "convertResponsesToChat"
    => LET input == translation.input
           out == translation.output
           kept == SelectSeq(input.entries, Salvageable)
       IN /\ input.kind = "string"
               => /\ out.threw = ""
                  /\ Len(out.messages) = 1
                  /\ out.messages[1].role = "user"
                  /\ out.messages[1].content =
                       ChatContent("string", input.text, <<>>)
          /\ (input.kind = "array" /\ kept = <<>>)
               => out.threw = "No valid messages after filtering"
          /\ (input.kind = "array" /\ kept # <<>>)
               => /\ out.threw = ""
                  /\ Len(out.messages) = Len(kept)
                  /\ \A k \in 1..Len(kept) :
                       /\ out.messages[k].role = kept[k].role
                       /\ out.messages[k].tool_calls = kept[k].tool_calls
                       /\ out.messages[k].tool_call_id = kept[k].tool_call_id
                       /\ kept[k].content.kind = "string"
                            => out.messages[k].content = kept[k].content
          /\ out.threw = "" => Len(out.messages) >= 1

C16_Witness ==
  /\ translation.op = "convertResponsesToChat"
  /\ translation.input.kind = "array"
  /\ Len(translation.input.entries) = 3
  /\ Len(translation.output.messages) = 2
  /\ translation.output.messages[1].tool_call_id = "c1"
  /\ translation.output.messages[2].content.kind = "string"
  /\ translation.input.entries[2].isNull

(***************************************************************************)
(* Complexity analyzer (src/routing/complexity-analyzer.js).               *)
(*                                                                         *)
(* A text is a sequence of words: lowercase letters only, separated by     *)
(* single spaces, no punctuation and no digits.  All the analyzer's        *)
(* regular expressions carry the i flag, so lowercase texts lose nothing.  *)
(* A regular expression is the set of word sequences it accepts, with its  *)
(* anchoring: "whole" for ^...$, "start" for ^..., "none" for \b...\b      *)
(* found anywhere.  `more` is 1 when the expression asks for a further     *)
(* word after the alternative (a trailing \s+ or \s+\w).  Alternatives     *)
(* that need a digit, an apostrophe or a hyphen are outside the alphabet   *)
(* and left out (\d+ files, e2e, what's); where an expression ends         *)
(* without \b it also accepts longer words beginning with its last word,   *)
(* of which the vocabulary below holds none.                               *)
(***************************************************************************)
MaxPhrases == 2

Phrases ==
  { <<"hi">>,
    <<"what", "time", "is", "it">>,
    <<"refactor", "the", "entire", "codebase">>,
    <<"to", "use", "microservices">>,
    <<"security", "audit", "of", "the", "distributed", "async", "cache",
      "across", "all", "files">>,
    <<"plan", "the", "tradeoff", "reasoning", "and", "fallback">>,
    <<"what", "is", "a", "queue">>,
    <<"is", "it", "safe">>,
    <<"build", "a", "new", "api", "from", "scratch">> }

RECURSIVE Texts(_)
Texts(n) ==
  IF n = 0 THEN {<<>>}
  ELSE Texts(n - 1) \cup {t \o p : t \in Texts(n - 1), p \in Phrases}

\* A request: `earlier` messages before the final user message (their number
\* and the characters of their string contents), the final user message's
\* string content, and the number of tools.
Payloads ==
  [earlier : {[count |-> 0, chars |-> 0]}
               \cup [count : {5, 10}, chars : {3000, 40000}],
   content : Texts(MaxPhrases),
   tools : {0, 3, 16}]

\* RegExp.prototype.test
test(pattern, content) ==
  \E alt \in pattern.alts :
    CASE pattern.anchor = "whole" -> content = alt
      [] pattern.anchor = "start" ->
           /\ Len(content) >= Len(alt) + pattern.more
           /\ SubSeq(content, 1, Len(alt)) = alt
      [] OTHER ->
           \E i \in 1..(Len(content) - Len(alt) + 1) :
             SubSeq(content, i, i + Len(alt) - 1) = alt

PATTERNS ==
  [greeting |->
     [anchor |-> "whole", more |-> 0,
      alts |-> {<<w>> : w \in {"hi", "hello", "hey", "howdy", "greetings",
                               "sup", "yo", "thank", "thanks", "thankyou",
                               "goodmorning", "goodafternoon",
                               "goodevening"}}
               \cup {<<"good", t>> : t \in {"morning", "afternoon",
                                            "evening"}}
               \cup {<<"thank", "you">>}],
   simpleQuestion |->
     [anchor |-> "start", more |-> 1,
      alts |-> {<<"what", "is">>, <<"define">>, <<"who", "is">>,
                <<"when", "was">>, <<"where", "is">>}],
   yesNo |->
     [anchor |-> "start", more |-> 1,
      alts |-> {<<"is", "it">>, <<"are", "there">>, <<"can", "i">>,
                <<"do", "you">>, <<"does", "it">>, <<"will", "it">>,
                <<"should", "i">>}],
   technical |->
     [anchor |-> "none", more |-> 0,
      alts |-> {<<w>> : w \in {"code", "function", "class", "method",
                               "variable", "api", "database", "server",
                               "client", "module", "import", "export",
                               "async", "await", "promise", "component",
                               "interface", "type", "struct", "enum"}}]]

ADVANCED_PATTERNS ==
  [codeComplexity |->
     [multiFile |->
        [anchor |-> "none", more |-> 0,
         alts |-> {<<q, f>> : q \in {"multiple", "across", "all"},
                              f \in {"file", "files"}}
                  \cup {<<"every", "file">>}],
      architecture |->
        [anchor |-> "none", more |-> 0,
         alts |-> {<<w>> : w \in {"architect", "architecture",
                                  "microservice", "distributed", "scalab",
                                  "infrastructure"}}
                  \cup {<<"system", "design">>}],
      concurrent |->
        [anchor |-> "none", more |-> 0,
         alts |-> {<<w>> : w \in {"async", "concurrent", "parallel",
                                  "thread", "worker", "queue", "mutex",
                                  "lock"}}
                  \cup {<<"race", "condition">>}],
      security |->
        [anchor |-> "none", more |-> 0,
         alts |-> {<<w>> : w \in {"security", "auth", "authentication",
                                  "authorisation", "authorization",
                                  "encrypt", "decrypt", "vulnerab",
                                  "injection", "xss", "csrf", "sanitiz"}}],
      testing |->
        [anchor |-> "none", more |-> 0,
         alts |-> {<<"test", "coverage">>, <<"integration", "test">>,
                   <<"end", "to", "end">>, <<"unit", "test">>,
                   <<"regression">>, <<"benchmark">>}],
      performance |->
        [anchor |-> "none", more |-> 0,
         alts |-> {<<w>> : w \in {"optimize", "optimise", "performance",
                                  "profil", "bottleneck", "cache",
                                  "caching"}}
                  \cup {<<"memory", "leak">>}],
      database |->
        [anchor |-> "none", more |-> 0,
         alts |-> {<<w>> : w \in {"migration", "schema", "index",
                                  "transaction", "rollback", "backup"}}
                  \cup {<<"query", "optimi">>}]],
   reasoning |->
     [stepByStep |->
        [anchor |-> "none", more |-> 0,
         alts |-> {<<"step", "by", "step">>, <<"think", "through">>,
                   <<"lets", "reason">>, <<"reasoning">>,
                   <<"chain", "of", "thought">>}],
      tradeoffs |->
        [anchor |-> "none", more |-> 0,
         alts |-> {<<"tradeoff">>, <<"trade", "off">>}
                  \cup {<<p, "and", c>> : p \in {"pro", "pros"},
                                          c \in {"con", "cons"}}
                  \cup {<<"compare", o>> : o \in {"option", "options"}}
                  \cup {<<"weigh", o>> : o \in {"option", "options"}}
                  \cup {<<"weigh", "the", o>> : o \in {"option", "options"}}
                  \cup {<<a, "and", d>> :
                          a \in {"advantage", "advantages"},
                          d \in {"disadvantage", "disadvantages"}}],
      analysis |->
        [anchor |-> "none", more |-> 0,
         alts |-> {<<w>> : w \in {"analyze", "analyse", "evaluat", "assess",
                                  "audit", "investigate", "diagnos"}}
                  \cup {<<"review", d>> : d \in {"the", "this", "my"}}],
      planning |->
        [anchor |-> "none", more |-> 0,
         alts |-> {<<w>> : w \in {"plan", "planning", "strategy", "approach",
                                  "roadmap", "rfc", "proposal"}}
                  \cup {<<"design", "doc">>}],
      edgeCases |->
        [anchor |-> "none", more |-> 0,
         alts |-> {<<"edge", "case">>, <<"corner", "case">>,
                   <<"what", "if">>, <<"exception">>,
                   <<"error", "handling">>, <<"fallback">>}]],
   taskScope |->
     [entire |->
        [anchor |-> "none", more |-> 0,
         alts |-> {<<e, s>> : e \in {"entire", "whole", "complete", "full"},
                              s \in {"codebase", "project", "app",
                                     "application", "system", "repo"}}
                  \cup {<<"all", "of", s>> :
                          s \in {"codebase", "project", "app",
                                 "application", "system", "repo"}}],
      refactor |->
        [anchor |-> "none", more |-> 0,
         alts |-> {<<w>> : w \in {"refactor", "restructure", "reorganize",
                                  "reorganise", "rewrite", "overhaul",
                                  "migrate"}}],
      implement |->
        [anchor |-> "none", more |-> 0,
         alts |-> UNION {{<<v, n>>, <<v, "a", n>>, <<v, "new", n>>,
                          <<v, "a", "new", n>>} :
                           v \in {"implement", "build", "create", "develop"},
                           n \in {"feature", "system", "module", "service",
                                  "api"}}],
      fromScratch |->
        [anchor |-> "none", more |-> 0,
         alts |-> {<<"from", "scratch">>, <<"ground", "up">>,
                   <<"greenfield">>, <<"bootstrap">>, <<"scaffold">>}]]]

FORCE_CLOUD_PATTERNS ==
  << [anchor |-> "none", more |-> 0,
      alts |-> {<<"security", k>> : k \in {"audit", "review", "assessment"}}
               \cup {<<"penetration", "test">>, <<"vulnerability", "scan">>}],
     [anchor |-> "none", more |-> 0,
      alts |-> {<<a, k>> : a \in {"architect", "architecture"},
                           k \in {"review", "design", "diagram"}}
               \cup {<<"system", "design">>}],
     [anchor |-> "none", more |-> 0,
      alts |-> {<<"refactor", k>> : k \in {"entire", "whole", "all"}}
               \cup {<<"refactor", "the", "entire">>,
                     <<"complete", "rewrite">>}],
     [anchor |-> "none", more |-> 0,
      alts |-> {<<"code", "review">>, <<"pr", "review">>,
                <<"pull", "request", "review">>}],
     [anchor |-> "none", more |-> 0,
      alts |-> {<<d, k>> : d \in {"debug", "debugging"},
                           k \in {"complex", "difficult", "hard", "tricky"}}],
     [anchor |-> "none", more |-> 0,
      alts |-> {<<"production", k>> :
                  k \in {"issue", "bug", "incident", "outage"}}] >>

\* The second expression is anchored at the start only.
FORCE_LOCAL_PATTERNS ==
  << [anchor |-> "whole", more |-> 0,
      alts |-> {<<w>> : w \in {"hi", "hello", "hey", "thank", "thanks",
                               "thankyou", "bye", "goodbye"}}
               \cup {<<"thank", "you">>}],
     [anchor |-> "start", more |-> 0,
      alts |-> {<<"what", k, "is", "it">> : k \in {"time", "day", "date"}}],
     [anchor |-> "whole", more |-> 0,
      alts |-> {<<w>> : w \in {"yes", "no", "ok", "okay", "sure",
                               "understood"}}
               \cup {<<"got", "it">>}],
     [anchor |-> "whole", more |-> 0,
      alts |-> {<<w>> : w \in {"help", "menu", "command", "commands",
                               "option", "options"}}] >>

\* String.prototype.length of the text: its words and the spaces between.
RECURSIVE Length(_)
Length(content) ==
  IF content = <<>> THEN 0
  ELSE Len(Head(content)) + (IF Len(content) > 1 THEN 1 ELSE 0)
         + Length(Tail(content))

\* The last user message's content: the request's final message.
extractContent(payload) == payload.content

estimateTokens(payload) ==
  LET totalChars == payload.earlier.chars + Length(payload.content)
  IN (totalChars + 3) \div 4

scoreTokens(payload) ==
  LET tokens == estimateTokens(payload)
  IN IF tokens < 500 THEN 0
     ELSE IF tokens < 1000 THEN 4
     ELSE IF tokens < 2000 THEN 8
     ELSE IF tokens < 4000 THEN 12
     ELSE IF tokens < 8000 THEN 16
     ELSE 20

\* variant: a heavy tool list scores above the documented range
scoreTools_Heavy(payload) ==
  LET toolCount == payload.tools
  IN IF toolCount = 0 THEN 0
     ELSE IF toolCount <= 3 THEN 4
     ELSE IF toolCount <= 6 THEN 8
     ELSE IF toolCount <= 10 THEN 12
     ELSE IF toolCount <= 15 THEN 16
     ELSE 24

scoreTools(payload) ==
  LET toolCount == payload.tools
  IN IF toolCount = 0 THEN 0
     ELSE IF toolCount <= 3 THEN 4
     ELSE IF toolCount <= 6 THEN 8
     ELSE IF toolCount <= 10 THEN 12
     ELSE IF toolCount <= 15 THEN 16
     ELSE 20

shouldForceLocal(payload) ==
  \E k \in DOMAIN FORCE_LOCAL_PATTERNS :
    test(FORCE_LOCAL_PATTERNS[k], extractContent(payload))

shouldForceCloud(payload) ==
  \E k \in DOMAIN FORCE_CLOUD_PATTERNS :
    test(FORCE_CLOUD_PATTERNS[k], extractContent(payload))

\* The force-local expressions are tried before the force-cloud ones.
scoreTaskType(content) ==
  IF \E k \in DOMAIN FORCE_LOCAL_PATTERNS :
       test(FORCE_LOCAL_PATTERNS[k], content)
    THEN [score |-> 0, reason |-> "force_local"]
  ELSE IF \E k \in DOMAIN FORCE_CLOUD_PATTERNS :
            test(FORCE_CLOUD_PATTERNS[k], content)
    THEN [score |-> 25, reason |-> "force_cloud"]
  ELSE IF test(PATTERNS.greeting, content)
    THEN [score |-> 0, reason |-> "greeting"]
  ELSE IF /\ test(PATTERNS.simpleQuestion, content)
          /\ ~test(PATTERNS.technical, content)
    THEN [score |-> 3, reason |-> "simple_question"]
  ELSE IF test(PATTERNS.yesNo, content)
    THEN [score |-> 2, reason |-> "yes_no_question"]
  ELSE IF test(ADVANCED_PATTERNS.taskScope.entire, content)
    THEN [score |-> 22, reason |-> "entire_codebase"]
  ELSE IF test(ADVANCED_PATTERNS.taskScope.fromScratch, content)
    THEN [score |-> 20, reason |-> "from_scratch"]
  ELSE IF test(ADVANCED_PATTERNS.taskScope.implement, content)
    THEN [score |-> 18, reason |-> "new_implementation"]
  ELSE IF test(ADVANCED_PATTERNS.taskScope.refactor, content)
    THEN [score |-> 16, reason |-> "refactoring"]
  ELSE IF test(PATTERNS.technical, content)
    THEN [score |-> 10, reason |-> "technical_content"]
  ELSE [score |-> 5, reason |-> "general"]

scoreCodeComplexity(content) ==
  LET p == ADVANCED_PATTERNS.codeComplexity
      score == (IF test(p.multiFile, content) THEN 5 ELSE 0)
             + (IF test(p.architecture, content) THEN 5 ELSE 0)
             + (IF test(p.concurrent, content) THEN 3 ELSE 0)
             + (IF test(p.security, content) THEN 4 ELSE 0)
             + (IF test(p.testing, content) THEN 2 ELSE 0)
             + (IF test(p.performance, content) THEN 3 ELSE 0)
             + (IF test(p.database, content) THEN 3 ELSE 0)
  IN IF score < 20 THEN score ELSE 20

scoreReasoning(content) ==
  LET p == ADVANCED_PATTERNS.reasoning
      score == (IF test(p.stepByStep, content) THEN 4 ELSE 0)
             + (IF test(p.tradeoffs, content) THEN 4 ELSE 0)
             + (IF test(p.analysis, content) THEN 3 ELSE 0)
             + (IF test(p.planning, content) THEN 3 ELSE 0)
             + (IF test(p.edgeCases, content) THEN 2 ELSE 0)
  IN IF score < 15 THEN score ELSE 15

\* config.smartToolSelection.mode, "heuristic" when unset
getThreshold(mode) ==
  CASE mode = "aggressive" -> 60
    [] mode = "conservative" -> 25
    [] OTHER -> 40

\* variant: the recommendation follows the threshold alone
recommendation_ByScore(taskTypeResult, adjustedScore, threshold) ==
  IF taskTypeResult.reason = "force_cloud" THEN "cloud"
  ELSE IF adjustedScore >= threshold THEN "cloud" ELSE "local"

recommendation(taskTypeResult, adjustedScore, threshold) ==
  IF taskTypeResult.reason = "force_local" THEN "local"
  ELSE IF taskTypeResult.reason = "force_cloud" THEN "cloud"
  ELSE IF adjustedScore >= threshold THEN "cloud" ELSE "local"

analyzeComplexity(payload, mode) ==
  LET content == extractContent(payload)
      messageCount == payload.earlier.count + 1
      tokenScore == scoreTokens(payload)
      toolScore == scoreTools(payload)
      taskTypeResult == scoreTaskType(content)
      codeComplexityResult == scoreCodeComplexity(content)
      reasoningResult == scoreReasoning(content)
      sum == tokenScore + toolScore + taskTypeResult.score
               + codeComplexityResult + reasoningResult
      totalScore == IF sum < 100 THEN sum ELSE 100
      conversationBonus == IF messageCount > 10 THEN 5
                           ELSE IF messageCount > 5 THEN 2 ELSE 0
      adjustedScore == IF totalScore + conversationBonus < 100
                         THEN totalScore + conversationBonus ELSE 100
      threshold == getThreshold(mode)
  IN [score |-> adjustedScore,
      threshold |-> threshold,
      mode |-> mode,
      recommendation |->
        recommendation(taskTypeResult, adjustedScore, threshold),
      breakdown |-> [tokens |-> tokenScore,
                     tools |-> toolScore,
                     taskType |-> taskTypeResult,
                     codeComplexity |-> codeComplexityResult,
                     reasoning |-> reasoningResult,
                     conversationBonus |-> conversationBonus]]

(***************************************************************************)
(* Specification of the analyzer: one request is analysed under one        *)
(* routing mode.                                                           *)
(***************************************************************************)
AnalyzeComplexity ==
  /\ analysis = NoAnalysis
  /\ \E payload \in Payloads :
       \E mode \in {"aggressive", "heuristic", "conservative"} :
         analysis' = [done |-> TRUE,
                      payload |-> payload,
                      result |-> analyzeComplexity(payload, mode)]
  /\ UNCHANGED <<config, breakers, now, req, consec, compaction,
                 translation, memory, selection, sse>>

\* Phase 4.  `embedding` and `references` tell whether getContentEmbedding
\* returned a vector for the request and for the two reference prompts; the
\* similarities are the values of cosineSimilarity in hundredths.
\* Math.round(x) is the floor of x + 1/2.
analyzeWithEmbeddings(payload, embedding, references, complexSimilarity, simpleSimilarity) ==
  IF Length(extractContent(payload)) < 20 THEN [isNull |-> TRUE]
  ELSE IF ~embedding THEN [isNull |-> TRUE]
  ELSE IF ~references THEN [isNull |-> TRUE]
  ELSE [isNull |-> FALSE,
        complexSimilarity |-> complexSimilarity,
        simpleSimilarity |-> simpleSimilarity,
        adjustment |->
          (2 * (complexSimilarity - simpleSimilarity) * 20 + 100) \div 200]

AnalyzeWithEmbeddings ==
  /\ analysis = NoAnalysis
  /\ \E payload \in {p \in Payloads : p.tools = 0 /\ p.earlier.count = 0},
        embedding \in BOOLEAN, references \in BOOLEAN,
        complexSimilarity \in {-100, -50, 0, 50, 100},
        simpleSimilarity \in {-100, -50, 0, 50, 100} :
       analysis' =
         [done |-> FALSE,
          payload |-> payload,
          similarities |-> <<complexSimilarity, simpleSimilarity>>,
          embeddings |-> analyzeWithEmbeddings(payload, embedding, references,
                                               complexSimilarity,
                                               simpleSimilarity)]
  /\ UNCHANGED <<config, breakers, now, req, consec, compaction,
                 translation, memory, selection, sse>>

InitAnalyzer ==
  /\ config = CHOOSE c \in BreakerConfigs : c.modelProvider = "ollama"
  /\ breakers = [p \in Providers |-> ClosedBreaker]
  /\ now = 0
  /\ req = [h \in Handlers |-> OffReq]
  /\ consec = [p \in Providers |-> 0]
  /\ compaction = NoCompaction
  /\ translation = NoTranslation
  /\ analysis = NoAnalysis
  /\ memory = NoCall
  /\ selection = NoCall
  /\ sse = NoCall

NextAnalyzer == AnalyzeComplexity \/ AnalyzeWithEmbeddings

SpecAnalyzer == InitAnalyzer /\ [][NextAnalyzer]_vars

(***************************************************************************)
(* Properties of the analyzer.                                             *)
(***************************************************************************)

\* C17: the score of every analysed request is an integer in 0..100 equal
\* to the smaller of 100 and the sum of the token, tool, task-type,
\* code-complexity and reasoning subscores and the conversation bonus; the
\* subscores lie in 0..20, 0..20, 0..25, 0..20 and 0..15 and the bonus in
\* 0..5.
C17_ScoreIsClampedSum ==
  analysis.done
    => LET b == analysis.result.breakdown
           sum == b.tokens + b.tools + b.taskType.score + b.codeComplexity
                    + b.reasoning + b.conversationBonus
       IN /\ analysis.result.score \in 0..100
          /\ analysis.result.score = IF sum < 100 THEN sum ELSE 100
          /\ b.tokens \in 0..20
          /\ b.tools \in 0..20
          /\ b.taskType.score \in 0..25
          /\ b.codeComplexity \in 0..20
          /\ b.reasoning \in 0..15
          /\ b.conversationBonus \in 0..5

\* Every subscore at its maximum and a long conversation: the sum passes 100.
C17_Witness ==
  /\ analysis.done
  /\ analysis.result.breakdown.tokens = 20
  /\ analysis.result.breakdown.tools = 20
  /\ analysis.result.breakdown.taskType.score = 25
  /\ analysis.result.breakdown.codeComplexity = 20
  /\ analysis.result.breakdown.reasoning = 15
  /\ analysis.result.breakdown.conversationBonus = 5
  /\ analysis.result.score = 100

\* C18: a request whose user text matches a force-cloud expression is
\* recommended for cloud, whatever its score, the routing mode and whatever
\* else the text matches.
C18_ForceCloudRecommendsCloud ==
  (analysis.done /\ shouldForceCloud(analysis.payload))
    => analysis.result.recommendation = "cloud"

\* C19: a request whose user text matches a force-local expression is
\* recommended for local, whatever its score and the routing mode.
C19_ForceLocalRecommendsLocal ==
  (analysis.done /\ shouldForceLocal(analysis.payload))
    => analysis.result.recommendation = "local"

\* A greeting whose tools, tokens and conversation length carry the score
\* to the threshold of the mode.
C19_Witness ==
  /\ analysis.done
  /\ shouldForceLocal(analysis.payload)
  /\ ~shouldForceCloud(analysis.payload)
  /\ analysis.result.mode = "heuristic"
  /\ analysis.result.score >= analysis.result.threshold
  /\ analysis.result.recommendation = "local"

\* C20: the single-message request without tools "refactor the entire
\* codebase to use microservices" scores at least 75, above the 0..25 of
\* the lowest tier.
C20_RefactorScenarioScores75 ==
  (/\ analysis.done
   /\ analysis.payload.earlier.count = 0
   /\ analysis.payload.tools = 0
   /\ analysis.payload.content =
        <<"refactor", "the", "entire", "codebase",
          "to", "use", "microservices">>)
    => /\ analysis.result.score >= 75
       /\ analysis.result.score > 25

(***************************************************************************)
(* Further properties of the message compaction                            *)
(***************************************************************************)
\* consecutive messages of one role merged, contents joined by a newline
RECURSIVE MergedSameRole(_, _)
MergedSameRole(msgs, out) ==
  IF Len(msgs) = 0 THEN out
  ELSE IF Len(out) > 0 /\ out[Len(out)].role = Head(msgs).role
  THEN MergedSameRole(Tail(msgs),
         [out EXCEPT ![Len(out)].content = @ \o Str(NL) \o Head(msgs).content])
  ELSE MergedSameRole(Tail(msgs),
         Append(out, [role |-> Head(msgs).role,
                      content |-> Head(msgs).content]))

\* C24: for a local target, consecutive messages of one role are merged
\* into one message whose content joins theirs with a single newline, so the
\* text of every translated message is still in the emitted sequence.
C24_SameRoleMerged ==
  compaction.target \in {"ollama", "llamacpp"}
    => [k \in 1..Len(compaction.emitted) |->
          [role |-> compaction.emitted[k].role,
           content |-> compaction.emitted[k].content]]
         = MergedSameRole(compaction.translated, <<>>)

\* C29: for llama.cpp, every tool call of an emitted assistant message that
\* had a tool message answering it before the compaction still has one in
\* the emitted sequence.
C29_ToolResultsSurvive ==
  compaction.target = "llamacpp"
    => \A a \in 1..Len(compaction.emitted) :
         \A c \in 1..Len(compaction.emitted[a].tool_calls) :
           (\E t \in 1..Len(compaction.translated) :
              /\ compaction.translated[t].role = "tool"
              /\ compaction.translated[t].tool_call_id =
                   compaction.emitted[a].tool_calls[c])
             => \E e \in 1..Len(compaction.emitted) :
                  /\ compaction.emitted[e].role = "tool"
                  /\ compaction.emitted[e].tool_call_id =
                       compaction.emitted[a].tool_calls[c]

(***************************************************************************)
(* Further properties of invokeModel                                       *)
(***************************************************************************)
\* C28: the provider a result reports, as actualProvider and in its routing
\* decision, is the provider whose invoke function was called for the
\* dispatch that produced the result; the breaker that guarded the dispatch
\* is the one registered under the reported provider.
C28_ReportedProviderWasInvoked ==
  \A h \in Handlers :
    req[h].pc = "done"
      => LET called == IF req[h].result.method = "fallback"
                       THEN req[h].fbFn ELSE req[h].primFn
         IN /\ req[h].result.actualProvider = ConfigOf(called)
            /\ req[h].result.provider = ConfigOf(called)

\* C30: an invoke function leaves the tools of the caller's request body as
\* the caller passed them, whether or not it sends the catalog upstream, so
\* a later dispatch of the same body sees the same request.
C30_BodyUnchanged ==
  translation.op = "tools" => translation.body = translation.input

(***************************************************************************)
(* Smart tool selection (src/tools/smart-selection.js).  A tool is its     *)
(* name; a confidence is a number of hundredths.                           *)
(***************************************************************************)
TOOL_SELECTION_MAP ==
  [conversational |-> {},
   simple_qa |-> {},
   research |-> {"Read", "Grep", "Glob", "WebSearch", "WebFetch"},
   file_reading |-> {"Read", "Grep", "Glob"},
   file_modification |-> {"Read", "Write", "Edit", "Grep", "Glob", "Bash"},
   code_execution |-> {"Read", "Write", "Edit", "Bash", "Grep", "Glob"},
   coding |-> {"Read", "Write", "Edit", "Bash", "Grep", "Glob"},
   complex_task |-> {"Read", "Write", "Edit", "Bash", "Grep", "Glob",
                     "WebSearch", "WebFetch", "Task", "TodoWrite",
                     "AskUserQuestion"}]

\* variant: a tool is taken to cost 100 tokens
estimateToolTokens_Low(tools) == Len(tools) * 100

estimateToolTokens(tools) == Len(tools) * 175

\* Array.prototype.slice(0, n) is SubSeq(s, 1, n) for 0 <= n <= Len(s)
selectToolsSmartly(tools, classification, options) ==
  IF Len(tools) = 0 THEN tools
  ELSE
  LET requestType == IF classification.type = "" THEN "coding"
                     ELSE classification.type
      relevantToolNames ==
        IF requestType \in DOMAIN TOOL_SELECTION_MAP
        THEN TOOL_SELECTION_MAP[requestType] ELSE TOOL_SELECTION_MAP.coding
      filtered == SelectSeq(tools, LAMBDA tool : tool \in relevantToolNames)
      adjusted ==
        IF options.mode = "aggressive"
        THEN IF classification.confidence < 70 /\ Len(filtered) > 4
             THEN SubSeq(filtered, 1, 4) ELSE filtered
        ELSE IF /\ options.mode = "conservative"
                /\ requestType = "file_reading"
                /\ "Bash" \notin relevantToolNames
                /\ \E k \in 1..Len(tools) : tools[k] = "Bash"
        THEN Append(filtered, "Bash")
        ELSE filtered
      limited == IF options.provider = "ollama" /\ Len(adjusted) > 8
                 THEN SubSeq(adjusted, 1, 8) ELSE adjusted
      targetCount == options.tokenBudget \div 175
      budgeted == IF estimateToolTokens(limited) > options.tokenBudget
                  THEN SubSeq(limited, 1,
                              IF targetCount > 0 THEN targetCount ELSE 0)
                  ELSE limited
  IN IF options.minimalMode
     THEN SelectSeq(budgeted,
                    LAMBDA t : t \in {"Read", "Write", "Edit", "Bash"})
     ELSE budgeted

\* one call of selectToolsSmartly: tool lists that are prefixes of a catalog
\* of the twelve tools a client may send, a short list and one with repeated
\* tools; every request type and one the map does not know
SelectToolsSmartly ==
  /\ selection.op = "none"
  /\ LET all == <<"Read", "Grep", "Bash", "Custom", "Write", "Edit", "Glob",
                  "WebSearch", "WebFetch", "Task", "TodoWrite",
                  "AskUserQuestion">>
     IN \E tools \in {SubSeq(all, 1, n) : n \in 0..Len(all)}
                       \cup {<<"Glob", "Bash">>, all \o all},
           type \in DOMAIN TOOL_SELECTION_MAP \cup {"", "unknown"},
           confidence \in {60, 80},
           provider \in {"ollama", "databricks"},
           tokenBudget \in {0, 174, 175, 800, 2500},
           mode \in {"aggressive", "heuristic", "conservative"},
           minimalMode \in BOOLEAN :
          selection' =
            [op |-> "selectToolsSmartly",
             tools |-> tools,
             classification |-> [type |-> type, confidence |-> confidence],
             options |-> [provider |-> provider, tokenBudget |-> tokenBudget,
                          mode |-> mode, minimalMode |-> minimalMode],
             output |-> selectToolsSmartly(
                          tools,
                          [type |-> type, confidence |-> confidence],
                          [provider |-> provider, tokenBudget |-> tokenBudget,
                           mode |-> mode, minimalMode |-> minimalMode])]
  /\ UNCHANGED <<config, breakers, now, req, consec, compaction, translation,
                 analysis, memory, sse>>

\* nothing has been called yet
InitIdle ==
  /\ config = CHOOSE c \in BreakerConfigs : c.modelProvider = "ollama"
  /\ breakers = [p \in Providers |-> ClosedBreaker]
  /\ now = 0
  /\ req = [h \in Handlers |-> OffReq]
  /\ consec = [p \in Providers |-> 0]
  /\ compaction = NoCompaction
  /\ translation = NoTranslation
  /\ analysis = NoAnalysis
  /\ memory = NoCall
  /\ selection = NoCall
  /\ sse = NoCall

SpecSelection == InitIdle /\ [][SelectToolsSmartly]_vars

\* C25: selectToolsSmartly returns only tools of the caller's list, at most
\* 8 of them for ollama, and a number n of them with 175 * n within the
\* token budget.
C25_SelectionWithinLimits ==
  selection.op = "selectToolsSmartly"
    => LET out == selection.output
       IN /\ \A k \in 1..Len(out) :
               \E j \in 1..Len(selection.tools) : selection.tools[j] = out[k]
          /\ selection.options.provider = "ollama" => Len(out) <= 8
          /\ 175 * Len(out) <= selection.options.tokenBudget

\* more than 8 relevant tools cut to 8 for ollama, and the budget allowing
\* fewer tools than were relevant
C25_Witness ==
  /\ selection.op = "selectToolsSmartly"
  /\ selection.options.provider = "ollama"
  /\ selection.classification.type = "complex_task"
  /\ Len(selection.tools) > 8
  /\ selection.options.tokenBudget = 2500
  /\ Len(selection.output) = 8

\* C27: analyzeWithEmbeddings returns null or an adjustment between -10 and
\* +10, for every pair of cosine similarities between -1 and 1.
C27_AdjustmentWithinTen ==
  ("embeddings" \in DOMAIN analysis /\ ~analysis.embeddings.isNull)
    => analysis.embeddings.adjustment \in -10..10

(***************************************************************************)
(* SSE stream consumer (src/tools/tinyfish.js).  The upstream's bytes are  *)
(* a sequence of units: the newline NL, the line prefix "data: ", and the  *)
(* JSON text of an event: a COMPLETE event with status COMPLETED ("S1",    *)
(* "S2", telling two payloads apart), a COMPLETE event with status FAILED  *)
(* ("F"), a progress event ("P"), or text that is no JSON ("junk").  A     *)
(* chunk boundary may fall between any two units.                          *)
(***************************************************************************)
MaxEvents == 2

\* String.prototype.split
RECURSIVE split(_, _, _)
split(s, sep, cur) ==
  IF Len(s) = 0 THEN <<cur>>
  ELSE IF Len(s) >= Len(sep) /\ SubSeq(s, 1, Len(sep)) = sep
  THEN <<cur>> \o split(SubSeq(s, Len(sep) + 1, Len(s)), sep, <<>>)
  ELSE split(Tail(s), sep, Append(cur, Head(s)))

\* one iteration of the read loop after reader.read() gave `value`: the new
\* carry buffer and how the iteration ends ("continue", "return", "throw")
consumeChunk(buffer, value) ==
  LET all == split(buffer \o value, <<NL, NL>>, <<>>)
      parts == SubSeq(all, 1, Len(all) - 1)
      lines(part) == split(part, <<NL>>, <<>>)
      data[part \in {parts[k] : k \in 1..Len(parts)}] ==
        LET ls == lines(part)
            acc[i \in 0..Len(ls)] ==
              IF i = 0 THEN <<>>
              ELSE IF Len(ls[i]) > 0 /\ ls[i][1] = "data: "
              THEN acc[i - 1] \o Tail(ls[i])
              ELSE acc[i - 1]
        IN acc[Len(ls)]
      \* JSON.parse succeeds on exactly one JSON text
      parses(dataStr) == Len(dataStr) = 1 /\ dataStr[1] # "junk"
      from[i \in 1..(Len(parts) + 1)] ==
        IF i > Len(parts) THEN [how |-> "continue", result |-> "none"]
        ELSE LET dataStr == data[parts[i]]
             IN IF ~parses(dataStr) THEN from[i + 1]
                ELSE IF dataStr[1] \in {"S1", "S2"}
                THEN [how |-> "return", result |-> dataStr[1]]
                ELSE IF dataStr[1] = "F"
                THEN [how |-> "throw", result |-> "TINYFISH_TASK_FAILED"]
                ELSE from[i + 1]
  IN [buffer |-> all[Len(all)], end |-> from[1]]

\* response.body.getReader(): the stream is up to MaxEvents frames
\* "data: <json>", each followed by a blank line, the last one possibly
\* ended by a single newline or by the end of the stream
GetReader ==
  /\ sse.op = "none"
  /\ \E events \in UNION {[1..n -> {"S1", "S2", "F", "P", "junk"}] :
                            n \in 0..MaxEvents},
        ending \in {<<NL, NL>>, <<NL>>, <<>>} :
       LET frame(k) == <<"data: ", events[k]>>
                         \o (IF k < Len(events) THEN <<NL, NL>> ELSE ending)
           bytes[k \in 0..Len(events)] ==
             IF k = 0 THEN <<>> ELSE bytes[k - 1] \o frame(k)
       IN sse' = [op |-> "consumeSSEStream",
                  events |-> events,
                  terminated |-> (ending = <<NL, NL>>),
                  rest |-> bytes[Len(events)],
                  buffer |-> <<>>,
                  locked |-> TRUE,
                  outcome |-> "reading",
                  result |-> "none"]
  /\ UNCHANGED <<config, breakers, now, req, consec, compaction, translation,
                 analysis, memory, selection>>

\* reader.read() delivers a chunk and the loop body runs
Read ==
  /\ sse.op = "consumeSSEStream"
  /\ sse.outcome = "reading"
  /\ \E n \in 1..Len(sse.rest) :
       LET step == consumeChunk(sse.buffer, SubSeq(sse.rest, 1, n))
       IN sse' = [sse EXCEPT
                    !.rest = SubSeq(sse.rest, n + 1, Len(sse.rest)),
                    !.buffer = step.buffer,
                    !.outcome = IF step.end.how = "continue" THEN "reading"
                                ELSE IF step.end.how = "return" THEN "returned"
                                ELSE step.end.result,
                    !.result = IF step.end.how = "return"
                               THEN step.end.result ELSE "none",
                    !.locked = (step.end.how = "continue")]
  /\ UNCHANGED <<config, breakers, now, req, consec, compaction, translation,
                 analysis, memory, selection>>

\* reader.read() reports done: the loop breaks and the function throws
ReadDone ==
  /\ sse.op = "consumeSSEStream"
  /\ sse.outcome = "reading"
  /\ Len(sse.rest) = 0
  /\ sse' = [sse EXCEPT !.outcome = "TINYFISH_INCOMPLETE", !.locked = FALSE]
  /\ UNCHANGED <<config, breakers, now, req, consec, compaction, translation,
                 analysis, memory, selection>>

\* the deadline has passed at the top of the loop
TimedOut ==
  /\ sse.op = "consumeSSEStream"
  /\ sse.outcome = "reading"
  /\ sse' = [sse EXCEPT !.outcome = "ETIMEDOUT", !.locked = FALSE]
  /\ UNCHANGED <<config, breakers, now, req, consec, compaction, translation,
                 analysis, memory, selection>>

NextSSE == GetReader \/ Read \/ ReadDone \/ TimedOut

SpecSSE == InitIdle /\ [][NextSSE]_vars

\* C26: a stream consumed within its deadline is classified by its content
\* alone, however it is cut into chunks: it returns the payload of the
\* first COMPLETE event with status COMPLETED, raises TINYFISH_TASK_FAILED
\* when the first COMPLETE event has another status, and ends with
\* TINYFISH_INCOMPLETE only when it carries no COMPLETE event at all; the
\* reader lock is released whenever the consumer has ended.
C26_OutcomeByContent ==
  (sse.op = "consumeSSEStream" /\ sse.outcome # "reading")
    => /\ ~sse.locked
       /\ sse.outcome # "ETIMEDOUT"
            => LET completes == SelectSeq(sse.events,
                                  LAMBDA e : e \in {"S1", "S2", "F"})
               IN IF Len(completes) = 0
                  THEN sse.outcome = "TINYFISH_INCOMPLETE"
                  ELSE IF completes[1] = "F"
                  THEN sse.outcome = "TINYFISH_TASK_FAILED"
                  ELSE /\ sse.outcome = "returned"
                       /\ sse.result = completes[1]

(***************************************************************************)
(* Long-term memory: extraction (src/unnamed/part_001).  The assistant     *)
(* text is a sequence of fragments: "plain" matches no extraction pattern, *)
(* "short" matches an entity pattern with a name under 3 characters, the   *)
(* others match a pattern of the named type with a capture of accepted     *)
(* length.  Scores are in hundredths, importances in thousandths.  The     *)
(* store and the surprise calculation may throw at any call.               *)
(***************************************************************************)
MaxFragments == 2

\* surprise.calculateSurprise: 1 - max similarity to a prior memory
SurpriseScores == {0, 29, 30, 100}

calculateInitialImportance(type, surpriseScore) ==
  LET baseImportance == [preference |-> 700, decision |-> 800, fact |-> 600,
                         entity |-> 400, relationship |-> 500]
      base == IF type \in DOMAIN baseImportance THEN baseImportance[type]
              ELSE 500
  IN IF base + surpriseScore * 3 < 1000 THEN base + surpriseScore * 3
     ELSE 1000

\* variant: the surprise threshold is not applied
createMemoryWithSurprise_Unfiltered(type, threshold, fault) ==
  IF fault.throws \in {"getRecentMemories", "calculateSurprise"}
  THEN [how |-> "throw"]
  ELSE IF fault.throws = "createMemory" THEN [how |-> "null"]
  ELSE [how |-> "memory",
        memory |-> [type |-> type, surpriseScore |-> fault.score,
                    importance |->
                      calculateInitialImportance(type, fault.score)]]

\* fault.throws names the call that throws while this candidate is handled
\* ("none": no call does); fault.score is what calculateSurprise returns
createMemoryWithSurprise(type, threshold, fault) ==
  IF fault.throws \in {"getRecentMemories", "calculateSurprise"}
  THEN [how |-> "throw"]
  ELSE IF fault.score < threshold THEN [how |-> "null"]
  ELSE IF fault.throws = "createMemory" THEN [how |-> "null"]
  ELSE [how |-> "memory",
        memory |-> [type |-> type, surpriseScore |-> fault.score,
                    importance |->
                      calculateInitialImportance(type, fault.score)]]

\* the try block of extractMemories: the candidates are handled type by
\* type until a call throws; `memories` is what reached the store
extractionBody(text, threshold, faults) ==
  LET ofType(t) == SelectSeq(text, LAMBDA f : f = t)
      candidates == ofType("preference") \o ofType("decision")
                      \o ofType("fact") \o ofType("entity")
                      \o ofType("relationship")
      n == Len(candidates)
      \* state after the first i candidates
      run[i \in 0..n] ==
        IF i = 0 THEN [thrown |-> FALSE, memories |-> <<>>]
        ELSE IF run[i - 1].thrown THEN run[i - 1]
        ELSE IF candidates[i] = "entity" /\ faults[i].throws = "trackEntity"
        THEN [run[i - 1] EXCEPT !.thrown = TRUE]
        ELSE LET made == createMemoryWithSurprise(candidates[i], threshold,
                                                  faults[i])
             IN IF made.how = "throw"
                THEN [run[i - 1] EXCEPT !.thrown = TRUE]
                ELSE IF made.how = "null" THEN run[i - 1]
                ELSE [run[i - 1] EXCEPT
                        !.memories = Append(@, made.memory)]
  IN run[n]

\* variant: an error of the try block is not caught
extractMemories_Uncaught(enabled, text, threshold, faults) ==
  IF ~enabled THEN [how |-> "return", value |-> <<>>, stored |-> <<>>]
  ELSE LET body == extractionBody(text, threshold, faults)
       IN [how |-> IF body.thrown THEN "throw" ELSE "return",
           value |-> IF body.thrown THEN <<>> ELSE body.memories,
           stored |-> body.memories]

\* `value` is what the promise resolves to
extractMemories(enabled, text, threshold, faults) ==
  IF ~enabled THEN [how |-> "return", value |-> <<>>, stored |-> <<>>]
  ELSE LET body == extractionBody(text, threshold, faults)
       IN [how |-> "return",
           value |-> IF body.thrown THEN <<>> ELSE body.memories,
           stored |-> body.memories]

ExtractMemories ==
  /\ memory.op = "none"
  /\ \E enabled \in BOOLEAN,
        text \in UNION {[1..k -> {"plain", "short", "preference", "decision",
                                  "fact", "entity", "relationship"}] :
                          k \in 0..MaxFragments},
        threshold \in {30, 50},
        faults \in [1..MaxFragments ->
                      {[throws |-> "none", score |-> s] : s \in SurpriseScores}
                      \cup {[throws |-> c, score |-> 100] :
                              c \in {"trackEntity", "getRecentMemories",
                                     "calculateSurprise", "createMemory"}}] :
       LET done == extractMemories(enabled, text, threshold, faults)
       IN memory' = [op |-> "extractMemories",
                     enabled |-> enabled,
                     text |-> text,
                     threshold |-> threshold,
                     faulty |-> \E i \in 1..MaxFragments :
                                  faults[i].throws # "none",
                     how |-> done.how,
                     value |-> done.value,
                     stored |-> done.stored]
  /\ UNCHANGED <<config, breakers, now, req, consec, compaction, translation,
                 analysis, selection, sse>>

(***************************************************************************)
(* Long-term memory: search (src/unnamed/part_002).  A query string is a   *)
(* sequence of units: the word "a", the word "OR", a space, a double       *)
(* quote, and the characters "*", "<" and ">".  Adjacent words form one    *)
(* longer word.                                                            *)
(***************************************************************************)
MaxQueryLen == 5

prepareFTS5Query(query) ==
  LET word == {"a", "OR"}
      \* String.prototype.trim
      trim(s) ==
        LET inked == {i \in 1..Len(s) : s[i] # " "}
        IN IF inked = {} THEN <<>>
           ELSE SubSeq(s, CHOOSE i \in inked : \A j \in inked : i <= j,
                          CHOOSE i \in inked : \A j \in inked : i >= j)
      \* replace(/\s+/g, ' ')
      spaces(s) ==
        SelectSeq([i \in 1..Len(s) |->
                     IF s[i] = " " /\ i > 1 /\ s[i - 1] = " " THEN "" ELSE s[i]],
                  LAMBDA c : c # "")
      \* replace(/<[^>]+>/g, ' ')
      tags(s) ==
        LET from[i \in 1..(Len(s) + 1)] ==
              IF i > Len(s) THEN <<>>
              ELSE LET closes == {j \in (i + 1)..Len(s) : s[j] = ">"}
                       j == CHOOSE k \in closes : \A l \in closes : k <= l
                   IN IF s[i] = "<" /\ closes # {} /\ j >= i + 2
                      THEN <<" ">> \o from[j + 1]
                      ELSE <<s[i]>> \o from[i + 1]
        IN from[1]
      \* replace(/"/g, '""')
      quotes(s) ==
        LET to[i \in 0..Len(s)] ==
              IF i = 0 THEN <<>>
              ELSE to[i - 1] \o (IF s[i] = "\"" THEN <<"\"", "\"">>
                                 ELSE <<s[i]>>)
        IN to[Len(s)]
      step2 == trim(spaces(tags(trim(query))))
      hasFTS5Operators ==
        \E i \in 1..Len(step2) :
          /\ step2[i] = "OR"
          /\ i = 1 \/ step2[i - 1] \notin word
          /\ i = Len(step2) \/ step2[i + 1] \notin word
      step4 == trim(spaces([i \in 1..Len(step2) |->
                              IF step2[i] \in {"*", "<", ">"} THEN " "
                              ELSE step2[i]]))
      step5 == quotes(step4)
      step6 == trim(spaces([i \in 1..Len(step5) |->
                              IF step5[i] \in word \cup {" ", "\""}
                              THEN step5[i] ELSE " "]))
  IN IF Len(step2) = 0 THEN <<"\"", "empty", " ", "query", "\"">>
     ELSE IF hasFTS5Operators THEN step6
     ELSE <<"\"">> \o step6 \o <<"\"">>

PrepareFTS5Query ==
  /\ memory.op = "none"
  /\ \E query \in UNION {[1..n -> {"a", "OR", " ", "\"", "*", "<", ">"}] :
                           n \in 0..MaxQueryLen} :
       memory' = [op |-> "prepareFTS5Query",
                  query |-> query,
                  value |-> prepareFTS5Query(query)]
  /\ UNCHANGED <<config, breakers, now, req, consec, compaction, translation,
                 analysis, selection, sse>>

\* `engine` is what the database does with the statement: it throws in
\* db.prepare or in stmt.all, returns a row whose metadata JSON.parse
\* rejects, or returns a row
searchMemories(query, engine) ==
  IF query.type # "string" \/ Len(query.text) = 0
  THEN [how |-> "return", value |-> <<>>, ftsQuery |-> <<>>]
  ELSE LET ftsQuery == prepareFTS5Query(query.text)
       IN IF engine # "rows"
          THEN [how |-> "return", value |-> <<>>, ftsQuery |-> ftsQuery]
          ELSE [how |-> "return", value |-> <<"row">>, ftsQuery |-> ftsQuery]

SearchMemories ==
  /\ memory.op = "none"
  /\ \E query \in {[type |-> "undefined", text |-> <<>>],
                   [type |-> "number", text |-> <<>>]}
                  \cup {[type |-> "string", text |-> t] :
                          t \in UNION {[1..n -> {"a", " ", "\"", "*"}] :
                                         n \in 0..MaxQueryLen}},
        engine \in {"rows", "prepare", "all", "JSON.parse"} :
       LET done == searchMemories(query, engine)
       IN memory' = [op |-> "searchMemories",
                     query |-> query,
                     engine |-> engine,
                     ftsQuery |-> done.ftsQuery,
                     how |-> done.how,
                     value |-> done.value]
  /\ UNCHANGED <<config, breakers, now, req, consec, compaction, translation,
                 analysis, selection, sse>>

NextMemory == ExtractMemories \/ PrepareFTS5Query \/ SearchMemories

SpecMemory == InitIdle /\ [][NextMemory]_vars

\* C21: text that matches no extraction pattern creates no memory, and every
\* stored memory has a surprise score at or above the threshold and an
\* importance of base-by-type plus 0.3 times the score, clamped into [0, 1].
C21_StoredMemories ==
  memory.op = "extractMemories"
    => /\ (\A i \in 1..Len(memory.text) : memory.text[i] = "plain")
            => memory.stored = <<>>
       /\ \A k \in 1..Len(memory.stored) :
            LET m == memory.stored[k]
                base == CASE m.type = "preference" -> 700
                          [] m.type = "decision" -> 800
                          [] m.type = "fact" -> 600
                          [] m.type = "entity" -> 400
                          [] m.type = "relationship" -> 500
                raw == base + 3 * m.surpriseScore
            IN /\ m.surpriseScore >= memory.threshold
               /\ m.importance = IF raw < 0 THEN 0
                                 ELSE IF raw > 1000 THEN 1000 ELSE raw

C21_Witness ==
  /\ memory.op = "extractMemories"
  /\ Len(memory.stored) = 2
  /\ memory.stored[1].type = "decision"
  /\ memory.stored[1].importance = 1000
  /\ memory.stored[2].type = "entity"
  /\ memory.stored[2].surpriseScore = memory.threshold

C23_AcceptedQuery ==
  memory.op = "prepareFTS5Query"
    => LET v == memory.value
           inner == SubSeq(v, 2, Len(v) - 1)
           quoted(s) == Len(SelectSeq(s, LAMBDA c : c = "\""))
           tokens == split(v, <<" ">>, <<>>)
           operand(i) == /\ i \in 1..Len(tokens)
                         /\ tokens[i] # <<"OR">>
                         /\ tokens[i] # <<>>
       IN /\ \A i \in 1..Len(v) : v[i] \notin {"*", "<", ">"}
          /\ \/ /\ Len(v) >= 3
                /\ v[1] = "\"" /\ v[Len(v)] = "\""
                /\ quoted(inner) % 2 = 0
             \/ /\ \E i \in 1..Len(tokens) : tokens[i] = <<"OR">>
                /\ \A i \in 1..Len(tokens) :
                     tokens[i] = <<"OR">> => operand(i - 1) /\ operand(i + 1)
                /\ quoted(v) % 2 = 0

====
